---- MODULE Spec2Model ----
(***************************************************************************)
(* A model of the persistence and authentication core of the Portfolio    *)
(* application: the useLocalStorage hook (hooks/useLocalStorage.js) and    *)
(* the AuthProvider built on it (context/AuthContext.jsx), with the        *)
(* AuthModal form that calls it (App.jsx); the Blog section with its posts *)
(* store and its derived list (sections/Blog.jsx); the tab of App; and the *)
(* file encodings of Profile, BlogPostForm and Gallery.                    *)
(*                                                                         *)
(* JavaScript strings and the texts kept in localStorage are sequences of  *)
(* one-character strings, so that trim(), JSON.stringify and JSON.parse    *)
(* are computed and not assumed.                                           *)
(***************************************************************************)
EXTENDS Integers, Sequences, FiniteSets, TLC

VARIABLES
    store,      \* localStorage: key -> entry (absent, or present with a text)
    status,     \* per hook binding: "unmounted", "mounted", or "raised"
    bkey,       \* per hook binding: the key it was bound to
    value,      \* per hook binding: the React state held by useState
    pending,    \* per hook binding: why its effect is due ("none" when not)
    last,       \* the hook-level step taken last and what it was given
    res,        \* what the last AuthProvider call or form submit returned
    created     \* the trimmed texts of the successful createAccount that
                \* stored the present account, while this page has been up

\* The Blog section (sections/Blog.jsx)
VARIABLES
    blogStatus,     \* "unmounted" or "mounted"
    posts,          \* the posts state of Blog
    search,         \* the search text
    selectedTags,   \* the selected tag filters, in the order chosen
    sort,           \* "newest" or "oldest"
    filtered,       \* the derived list the last render computed
    fresh,          \* how many ids crypto.randomUUID has handed out
    out             \* the Blog step taken last and what it saw

blogVars ==
    <<blogStatus, posts, search, selectedTags, sort, filtered, fresh, out>>

\* The App component (App.jsx)
VARIABLES
    appStatus,      \* "unmounted", "restoring", "mounted" or "raised"
    active,         \* the active state of App: the label of the tab shown
    queued,         \* the setActive call of the mount effect not yet rendered
    restored,       \* what the mount effect read under "activeTab", until
                    \* a tab is clicked
    authModal       \* the auth dialog state of App: open or not, and mode

appVars == <<appStatus, active, queued, restored, authModal>>

\* File encodings in flight, and the drafts they end in (Profile.jsx,
\* BlogPostForm.jsx, Gallery.jsx)
VARIABLES
    tasks,          \* the encodings in flight
    picked,         \* how many files have been picked
    draftPhoto,     \* the photo draft of the Profile editor
    image,          \* the image draft of BlogPostForm
    images,         \* the images state of Gallery
    notices,        \* per component, how often a failed encoding surfaced
    enc             \* the encoding step taken last

encVars == <<tasks, picked, draftPhoto, image, images, notices, enc>>

\* The Profile component (Profile.jsx)
VARIABLES
    profile         \* its state besides the photo draft: editing, editMode,
                    \* summary, plans, photo, draftSummary, draftPlans

extVars == <<blogVars, appVars, encVars, profile>>

vars == <<store, status, bkey, value, pending, last, res, created, extVars>>

----------------------------------------------------------------------------
(* Bounds *)

\* Most blanks put before and after a name typed into a form field.
MaxPad == 1

\* Most ids crypto.randomUUID hands out while the page is followed.
MaxIds == 4

\* Most posts of the Blog when a post is created.
MaxPosts == 3

\* Most tag filters selected at a time.
MaxSelected == 2

\* Most posts of a collection the derived list is computed over.
MaxShown == 3

\* Most files picked for encoding while the page is followed.
MaxPicks == 3

----------------------------------------------------------------------------
(* JavaScript strings *)

Whitespace == {" "}

RECURSIVE TrimStart(_)
TrimStart(s) ==
    IF s # <<>> /\ Head(s) \in Whitespace THEN TrimStart(Tail(s)) ELSE s

RECURSIVE TrimEnd(_)
TrimEnd(s) ==
    IF s # <<>> /\ s[Len(s)] \in Whitespace
    THEN TrimEnd(SubSeq(s, 1, Len(s) - 1))
    ELSE s

\* String.prototype.trim
Trim(s) == TrimEnd(TrimStart(s))

RECURSIVE Blanks(_)
Blanks(n) == IF n = 0 THEN <<>> ELSE <<" ">> \o Blanks(n - 1)

----------------------------------------------------------------------------
(* JavaScript values.  Every value is a record of one shape; `type` says   *)
(* which of the other fields carries it.                                    *)

JsVal(t, b, s, u, p) ==
    [type |-> t, b |-> b, s |-> s, username |-> u, password |-> p]

JUndefined == JsVal("undefined", FALSE, <<>>, <<>>, <<>>)
JNull == JsVal("null", FALSE, <<>>, <<>>, <<>>)
JBool(x) == JsVal("boolean", x, <<>>, <<>>, <<>>)
JStr(s) == JsVal("string", FALSE, s, <<>>, <<>>)
\* { username, password }
JAccount(u, p) == JsVal("object", FALSE, <<>>, u, p)

\* The truth value a JavaScript condition gives a value.
Truthy(v) ==
    CASE v.type = "boolean" -> v.b
      [] v.type = "string" -> v.s # <<>>
      [] v.type = "object" -> TRUE
      [] OTHER -> FALSE

\* Object.is(a, b) as React's setState uses it to skip a re-render: an
\* object literal made by the caller is never the object already held.
ObjectIs(a, b) == a.type # "object" /\ a = b

----------------------------------------------------------------------------
(* JSON texts *)

Quote == "\""
TextNull == <<"n", "u", "l", "l">>
TextTrue == <<"t", "r", "u", "e">>
TextFalse == <<"f", "a", "l", "s", "e">>
KeyUsername == <<"u", "s", "e", "r", "n", "a", "m", "e">>
KeyPassword == <<"p", "a", "s", "s", "w", "o", "r", "d">>

Quoted(s) == <<Quote>> \o s \o <<Quote>>
ObjOpen == <<"{">> \o Quoted(KeyUsername) \o <<":">>
ObjMid == <<",">> \o Quoted(KeyPassword) \o <<":">>
ObjClose == <<"}">>

\* JSON.stringify, for strings whose characters need no escape.
Stringify(v) ==
    CASE v.type = "null" -> TextNull
      [] v.type = "boolean" -> IF v.b THEN TextTrue ELSE TextFalse
      [] v.type = "string" -> Quoted(v.s)
      [] v.type = "object" ->
            ObjOpen \o Quoted(v.username) \o ObjMid \o Quoted(v.password)
                \o ObjClose

ParseFail == [ok |-> FALSE, val |-> JUndefined]
ParseOk(v) == [ok |-> TRUE, val |-> v]

StartsWithAt(t, i, p) ==
    /\ i + Len(p) - 1 <= Len(t)
    /\ SubSeq(t, i, i + Len(p) - 1) = p

\* A string literal of t that opens at position i: its characters and the
\* position after its closing quote.
ParseStringAt(t, i) ==
    IF i > Len(t) \/ t[i] # Quote
    THEN [ok |-> FALSE, s |-> <<>>, next |-> i]
    ELSE LET closers == {j \in (i + 1)..Len(t) : t[j] = Quote}
         IN  IF closers = {}
             THEN [ok |-> FALSE, s |-> <<>>, next |-> i]
             ELSE LET j == CHOOSE c \in closers : \A d \in closers : c <= d
                  IN  [ok |-> TRUE, s |-> SubSeq(t, i + 1, j - 1),
                       next |-> j + 1]

ParseObject(t) ==
    LET u == ParseStringAt(t, Len(ObjOpen) + 1)
    IN  IF ~u.ok \/ ~StartsWithAt(t, u.next, ObjMid)
        THEN ParseFail
        ELSE LET p == ParseStringAt(t, u.next + Len(ObjMid))
             IN  IF /\ p.ok
                    /\ StartsWithAt(t, p.next, ObjClose)
                    /\ p.next + Len(ObjClose) - 1 = Len(t)
                 THEN ParseOk(JAccount(u.s, p.s))
                 ELSE ParseFail

\* JSON.parse on the texts of this model: ok is FALSE where it throws.
Parse(t) ==
    IF t = TextNull THEN ParseOk(JNull)
    ELSE IF t = TextTrue THEN ParseOk(JBool(TRUE))
    ELSE IF t = TextFalse THEN ParseOk(JBool(FALSE))
    ELSE IF t # <<>> /\ t[1] = Quote
    THEN LET r == ParseStringAt(t, 1)
         IN  IF r.ok /\ r.next = Len(t) + 1 THEN ParseOk(JStr(r.s))
             ELSE ParseFail
    ELSE IF StartsWithAt(t, 1, ObjOpen) THEN ParseObject(t)
    ELSE ParseFail

----------------------------------------------------------------------------
(* localStorage *)

Absent == [present |-> FALSE, raw |-> <<>>]
Item(t) == [present |-> TRUE, raw |-> t]

\* localStorage.getItem: the entry, Absent standing for null.
GetItem(st, k) == st[k]

\* localStorage.setItem when the storage accepts the write.
SetItem(st, k, t) == [st EXCEPT ![k] = Item(t)]

\* `raw ? ... : ...`: null and the empty string are both falsy.
RawTruthy(e) == e.present /\ e.raw # <<>>

----------------------------------------------------------------------------
(* useLocalStorage *)

\* `JSON.parse(raw) || initial`: the parsed value tested in place of raw.
InitialValueByParsedTruth(st, k, initial) ==
    LET raw == GetItem(st, k)
    IN  IF RawTruthy(raw)
        THEN LET r == Parse(raw.raw)
             IN  [raised |-> ~r.ok,
                  value |-> IF Truthy(r.val) \/ ~r.ok THEN r.val
                            ELSE initial]
        ELSE [raised |-> FALSE, value |-> initial]

\* The useState initializer: what the binding starts from, and whether
\* JSON.parse threw out of it.
InitialValue(st, k, initial) ==
    LET raw == GetItem(st, k)
    IN  IF RawTruthy(raw)
        THEN LET r == Parse(raw.raw)
             IN  [raised |-> ~r.ok, value |-> r.val]
        ELSE [raised |-> FALSE, value |-> initial]

\* The effect body: localStorage.setItem(key, JSON.stringify(value)).
\* `quota` is the storage refusing the write by throwing.
EffectStore(st, k, v, quota) ==
    IF quota THEN st ELSE SetItem(st, k, Stringify(v))

----------------------------------------------------------------------------
(* The hook on its own: bindings made by any component, on any key.        *)

Bindings == {"b1", "b2"}
Keys == {"isAuthed", "auth:account"}

\* Values handed to the setter, and defaults handed to the hook.
HookValues ==
    {JNull, JBool(FALSE), JBool(TRUE), JStr(<<>>), JStr(<<"a">>),
     JAccount(<<"a">>, <<"A">>)}
Defaults == {JBool(FALSE), JNull, JStr(<<"d">>)}

\* What localStorage may hold when the page loads: nothing, a text an
\* earlier session wrote, or a text that is not JSON.
CorruptTexts == {<<>>, <<"{">>}
HookInitEntries ==
    {Absent} \cup {Item(t) : t \in CorruptTexts}
        \cup {Item(Stringify(v)) : v \in {JBool(TRUE), JStr(<<"a">>)}}

NoLast ==
    [op |-> "none", b |-> "b1", arg |-> JUndefined, cause |-> "none",
     threw |-> FALSE]
NoRes ==
    [op |-> "none", ok |-> FALSE, created |-> FALSE, error |-> "",
     user |-> <<>>, input |-> <<>>]
NoCreated == [set |-> FALSE, user |-> <<>>, input |-> <<>>]

\* A component renders the hook for the first time: the useState
\* initializer reads the store; the effect is due once the render commits.
Mount(b, k, d) ==
    /\ status[b] = "unmounted"
    /\ LET r == InitialValue(store, k, d)
       IN  /\ status' = [status EXCEPT
                            ![b] = IF r.raised THEN "raised" ELSE "mounted"]
           /\ value' = [value EXCEPT ![b] = r.value]
           /\ pending' = [pending EXCEPT
                            ![b] = IF r.raised THEN "none" ELSE "mount"]
           /\ last' = [op |-> "mount", b |-> b, arg |-> d,
                       cause |-> "none", threw |-> r.raised]
    /\ bkey' = [bkey EXCEPT ![b] = k]
    /\ UNCHANGED <<store, res, created>>
    /\ UNCHANGED extVars

\* The setter returned by the hook (setValue of useState): the state
\* changes now, the effect is due after the render this triggers.
SetValue(b, v) ==
    /\ status[b] = "mounted"
    /\ pending[b] # "mount"
    /\ value' = [value EXCEPT ![b] = v]
    /\ pending' = [pending EXCEPT
                     ![b] = IF ObjectIs(v, value[b]) THEN @ ELSE "set"]
    /\ last' = [op |-> "set", b |-> b, arg |-> v, cause |-> "none",
                threw |-> FALSE]
    /\ UNCHANGED <<store, status, bkey, res, created>>
    /\ UNCHANGED extVars

\* The effect of the hook runs; an exception of setItem leaves it.
RunEffect(b, quota) ==
    /\ status[b] = "mounted"
    /\ pending[b] # "none"
    /\ store' = EffectStore(store, bkey[b], value[b], quota)
    /\ status' = [status EXCEPT ![b] = IF quota THEN "raised" ELSE @]
    /\ pending' = [pending EXCEPT ![b] = "none"]
    /\ last' = [op |-> "effect", b |-> b, arg |-> value[b],
                cause |-> pending[b], threw |-> quota]
    /\ UNCHANGED <<bkey, value, res, created>>
    /\ UNCHANGED extVars

\* The component leaves the tree; React has run its effects before.
Unmount(b) ==
    /\ status[b] # "unmounted"
    /\ pending[b] = "none"
    /\ status' = [status EXCEPT ![b] = "unmounted"]
    /\ value' = [value EXCEPT ![b] = JUndefined]
    /\ last' = [NoLast EXCEPT !.op = "unmount", !.b = b]
    /\ UNCHANGED <<store, bkey, pending, res, created>>
    /\ UNCHANGED extVars

\* The Blog before it is on screen.
NoOut == [op |-> "none", quota |-> FALSE, emptied |-> FALSE]
BlogIdle ==
    /\ blogStatus = "unmounted"
    /\ posts = <<>>
    /\ search = <<>>
    /\ selectedTags = <<>>
    /\ sort = "newest"
    /\ filtered = <<>>
    /\ fresh = 0
    /\ out = NoOut

\* The labels of the tabs of Nav.
TabEducation == <<"E", "d", "u", "c", "a", "t", "i", "o", "n">>
TabBlog == <<"B", "l", "o", "g">>
Tabs ==
    <<TabEducation, <<"E", "x", "p", "e", "r", "i", "e", "n", "c", "e">>,
      TabBlog, <<"G", "a", "l", "l", "e", "r", "y">>>>

\* App before it is on screen.
NoQueued == [set |-> FALSE, tab |-> <<>>]
AppIdle ==
    /\ appStatus = "unmounted"
    /\ active = TabEducation
    /\ queued = NoQueued
    /\ restored = Absent
    /\ authModal = [open |-> FALSE, mode |-> "login"]

\* The components that encode files.
Encoders == {"profile", "form", "gallery"}

\* The default photo of Profile: { url: "/tomdesheath.jpg" }
DefaultPhoto ==
    [type |-> "object",
     s |-> <<"/", "t", "o", "m", "d", "e", "s", "h", "e", "a", "t", "h", ".",
             "j", "p", "g">>,
     n |-> 0]

\* No file has been picked.
NoEnc == [op |-> "none", c |-> "profile"]
EncodeIdle ==
    /\ tasks = {}
    /\ picked = 0
    /\ draftPhoto = DefaultPhoto
    /\ image = <<>>
    /\ images = <<>>
    /\ notices = [c \in Encoders |-> 0]
    /\ enc = NoEnc

\* The texts of Profile a previous visit saved.
StoredSummary == <<"s">>
StoredPlans == <<"p">>

\* Profile as it is constructed over the persisted values s, p and ph: the
\* editor is closed and every draft is useState(the persisted value); the
\* photo draft is the variable draftPhoto.
ProfileOf(s, p, ph) ==
    [editing |-> FALSE, editMode |-> "summary",
     summary |-> s, plans |-> p, photo |-> ph,
     draftSummary |-> s, draftPlans |-> p]

ProfileIdle == profile = ProfileOf(StoredSummary, StoredPlans, DefaultPhoto)

ExtIdle == BlogIdle /\ AppIdle /\ EncodeIdle /\ ProfileIdle

HookInit ==
    /\ store \in [Keys -> HookInitEntries]
    /\ status = [b \in Bindings |-> "unmounted"]
    /\ bkey = [b \in Bindings |-> "isAuthed"]
    /\ value = [b \in Bindings |-> JUndefined]
    /\ pending = [b \in Bindings |-> "none"]
    /\ last = NoLast
    /\ res = NoRes
    /\ created = NoCreated
    /\ ExtIdle

HookNext ==
    \/ \E b \in Bindings, k \in Keys, d \in Defaults : Mount(b, k, d)
    \/ \E b \in Bindings, v \in HookValues : SetValue(b, v)
    \/ \E b \in Bindings, quota \in BOOLEAN : RunEffect(b, quota)
    \/ \E b \in Bindings : Unmount(b)

SpecHook == HookInit /\ [][HookNext]_vars

----------------------------------------------------------------------------
(* AuthProvider: two bindings of the hook, and the calls it hands out.     *)

\* useLocalStorage("isAuthed", false)
AuthedB == "b1"
\* useLocalStorage("auth:account", null)
AccountB == "b2"

AuthKeys == [b \in Bindings |-> IF b = AuthedB THEN "isAuthed"
                                              ELSE "auth:account"]
AuthDefaults == [b \in Bindings |-> IF b = AuthedB THEN JBool(FALSE)
                                                  ELSE JNull]

ErrInvalidInput == "Incorrect username or password"
ErrInvalidCredentials == "Incorrect username or password"
ErrUsernameRequired == "Username required"
ErrPasswordRequired == "Password required"
ErrAccountExists == "Account already exists"
ErrPasswordsDiffer == "Passwords do not match"

Ok == [ok |-> TRUE, created |-> FALSE, error |-> ""]
OkCreated == [ok |-> TRUE, created |-> TRUE, error |-> ""]
Fail(e) == [ok |-> FALSE, created |-> FALSE, error |-> e]
\* A result as `res` keeps it: with the call that returned it and the
\* two texts it was given, trimmed (`user` and `input` in the source).
Tag(op, r, un, pw) ==
    [op |-> op, ok |-> r.ok, created |-> r.created, error |-> r.error,
     user |-> Trim(un), input |-> Trim(pw)]

\* v.username, v.password: undefined on anything but an object.
Prop(v, f) == IF v.type = "object" THEN JStr(v[f]) ELSE JUndefined

\* toLowerCase
ToLower(s) ==
    LET UpperCase ==
            <<"A", "B", "C", "D", "E", "F", "G", "H", "I", "J", "K", "L",
              "M", "N", "O", "P", "Q", "R", "S", "T", "U", "V", "W", "X",
              "Y", "Z">>
        LowerCase ==
            <<"a", "b", "c", "d", "e", "f", "g", "h", "i", "j", "k", "l",
              "m", "n", "o", "p", "q", "r", "s", "t", "u", "v", "w", "x",
              "y", "z">>
    IN  [i \in 1..Len(s) |->
            IF \E k \in 1..26 : UpperCase[k] = s[i]
            THEN LowerCase[CHOOSE k \in 1..26 : UpperCase[k] = s[i]]
            ELSE s[i]]

\* login comparing the usernames without regard to case.
LoginResultCaseBlind(acc, un, pw) ==
    LET user == Trim(un)
        input == Trim(pw)
    IN  IF user = <<>> \/ input = <<>> THEN Fail(ErrInvalidInput)
        ELSE IF /\ Truthy(acc)
                /\ acc.type = "object"
                /\ ToLower(user) = ToLower(acc.username)
                /\ JStr(input) = Prop(acc, "password")
        THEN Ok
        ELSE Fail(ErrInvalidCredentials)

\* login telling a missing account from a wrong password.
LoginResultNamingAbsence(acc, un, pw) ==
    LET user == Trim(un)
        input == Trim(pw)
    IN  IF user = <<>> \/ input = <<>> THEN Fail(ErrInvalidInput)
        ELSE IF ~Truthy(acc) THEN Fail("No account exists")
        ELSE IF /\ JStr(user) = Prop(acc, "username")
                /\ JStr(input) = Prop(acc, "password")
        THEN Ok
        ELSE Fail(ErrInvalidCredentials)

\* login answering an empty field as createAccount does.
LoginResultFieldErrors(acc, un, pw) ==
    LET user == Trim(un)
        input == Trim(pw)
    IN  IF user = <<>> THEN Fail(ErrUsernameRequired)
        ELSE IF input = <<>> THEN Fail(ErrPasswordRequired)
        ELSE IF /\ Truthy(acc)
                /\ JStr(user) = Prop(acc, "username")
                /\ JStr(input) = Prop(acc, "password")
        THEN Ok
        ELSE Fail(ErrInvalidCredentials)

\* login letting anyone in while no account is stored.
LoginResultWithoutAccount(acc, un, pw) ==
    LET user == Trim(un)
        input == Trim(pw)
    IN  IF user = <<>> \/ input = <<>> THEN Fail(ErrInvalidInput)
        ELSE IF ~Truthy(acc) THEN Ok
        ELSE IF /\ JStr(user) = Prop(acc, "username")
                /\ JStr(input) = Prop(acc, "password")
        THEN Ok
        ELSE Fail(ErrInvalidCredentials)

\* What login returns.
LoginResult(acc, un, pw) ==
    LET user == Trim(un)
        input == Trim(pw)
    IN  IF user = <<>> \/ input = <<>> THEN Fail(ErrInvalidInput)
        ELSE IF /\ Truthy(acc)
                /\ JStr(user) = Prop(acc, "username")
                /\ JStr(input) = Prop(acc, "password")
        THEN Ok
        ELSE Fail(ErrInvalidCredentials)

\* createAccount testing the password before the username.
CreateAccountResultPasswordFirst(acc, un, pw) ==
    LET user == Trim(un)
        input == Trim(pw)
    IN  IF input = <<>> THEN Fail(ErrPasswordRequired)
        ELSE IF user = <<>> THEN Fail(ErrUsernameRequired)
        ELSE IF Truthy(acc) /\ Prop(acc, "username") = JStr(user)
        THEN Fail(ErrAccountExists)
        ELSE OkCreated

\* What createAccount returns.
CreateAccountResult(acc, un, pw) ==
    LET user == Trim(un)
        input == Trim(pw)
    IN  IF user = <<>> THEN Fail(ErrUsernameRequired)
        ELSE IF input = <<>> THEN Fail(ErrPasswordRequired)
        ELSE IF Truthy(acc) /\ Prop(acc, "username") = JStr(user)
        THEN Fail(ErrAccountExists)
        ELSE OkCreated

\* The bindings a batch of setter calls makes React render again.
Dirty(updates) ==
    {b \in DOMAIN updates : ~ObjectIs(updates[b], value[b])}

\* The effects of AuthProvider, in the order of its hooks.
AuthEffects(st, vals, dirty, fails) ==
    LET s1 == IF AuthedB \in dirty
              THEN EffectStore(st, AuthKeys[AuthedB], vals[AuthedB],
                               AuthedB \in fails)
              ELSE st
    IN  IF AccountB \in dirty
        THEN EffectStore(s1, AuthKeys[AccountB], vals[AccountB],
                         AccountB \in fails)
        ELSE s1

\* A handler has called the setters of `updates`: React renders, then the
\* effects of the bindings that changed write them to the store; `fails`
\* are the writes the storage refuses.
Commit(updates, fails) ==
    LET newValue == [b \in Bindings |->
                        IF b \in DOMAIN updates THEN updates[b]
                        ELSE value[b]]
    IN  /\ value' = newValue
        /\ store' = AuthEffects(store, newValue, Dirty(updates), fails)
        /\ status' = [b \in Bindings |->
                        IF b \in fails THEN "raised" ELSE status[b]]

ProviderMounted == \A b \in Bindings : status[b] = "mounted"

\* The body of login.
LoginCall(un, pw) ==
    IF LoginResult(value[AccountB], un, pw).ok
    THEN \E fails \in SUBSET Dirty(AuthedB :> JBool(TRUE)) :
            Commit(AuthedB :> JBool(TRUE), fails)
    ELSE UNCHANGED <<store, status, value>>

\* The body of createAccount.
CreateAccountCall(un, pw) ==
    IF CreateAccountResult(value[AccountB], un, pw).ok
    THEN LET updates == (AccountB :> JAccount(Trim(un), Trim(pw)))
                            @@ (AuthedB :> JBool(TRUE))
         IN  \E fails \in SUBSET Dirty(updates) : Commit(updates, fails)
    ELSE UNCHANGED <<store, status, value>>

CreatedAfter(r, un, pw) ==
    IF r.ok THEN [set |-> TRUE, user |-> Trim(un), input |-> Trim(pw)]
    ELSE created

Login(un, pw) ==
    /\ ProviderMounted
    /\ LoginCall(un, pw)
    /\ res' = Tag("login", LoginResult(value[AccountB], un, pw), un, pw)
    /\ UNCHANGED <<bkey, pending, last, created>>
    /\ UNCHANGED extVars

CreateAccount(un, pw) ==
    /\ ProviderMounted
    /\ CreateAccountCall(un, pw)
    /\ res' = Tag("createAccount",
                  CreateAccountResult(value[AccountB], un, pw), un, pw)
    /\ created' = CreatedAfter(CreateAccountResult(value[AccountB], un, pw),
                               un, pw)
    /\ UNCHANGED <<bkey, pending, last>>
    /\ UNCHANGED extVars

\* logout that also forgets the account.
LogoutClearsAccount ==
    /\ ProviderMounted
    /\ LET updates == (AuthedB :> JBool(FALSE)) @@ (AccountB :> JNull)
       IN  \E fails \in SUBSET Dirty(updates) : Commit(updates, fails)
    /\ res' = Tag("logout", Ok, <<>>, <<>>)
    /\ UNCHANGED <<bkey, pending, last, created>>
    /\ UNCHANGED extVars

Logout ==
    /\ ProviderMounted
    /\ \E fails \in SUBSET Dirty(AuthedB :> JBool(FALSE)) :
            Commit(AuthedB :> JBool(FALSE), fails)
    /\ res' = Tag("logout", Ok, <<>>, <<>>)
    /\ UNCHANGED <<bkey, pending, last, created>>
    /\ UNCHANGED extVars

\* `res?.error || fallback`
Surfaced(r, fallback) ==
    IF r.ok THEN r
    ELSE Fail(IF r.error # "" THEN r.error ELSE fallback)

\* AuthModal.onSubmit.  The form is on screen only while logged out.
OnSubmit(mode, un, pw, pw2) ==
    /\ ProviderMounted
    /\ ~Truthy(value[AuthedB])
    /\ IF pw = <<>>
       THEN /\ res' = Tag("onSubmit", Fail(ErrPasswordRequired), un, pw)
            /\ UNCHANGED <<store, status, value, created>>
       ELSE IF mode = "create" /\ pw2 # pw
       THEN /\ res' = Tag("onSubmit", Fail(ErrPasswordsDiffer), un, pw)
            /\ UNCHANGED <<store, status, value, created>>
       ELSE IF mode = "login"
       THEN /\ LoginCall(un, pw)
            /\ res' = Tag("onSubmit",
                          Surfaced(LoginResult(value[AccountB], un, pw),
                                   "Incorrect username or password"),
                          un, pw)
            /\ UNCHANGED created
       ELSE /\ CreateAccountCall(un, pw)
            /\ res' = Tag("onSubmit",
                          Surfaced(CreateAccountResult(value[AccountB],
                                                       un, pw),
                                   "Could not create account"),
                          un, pw)
            /\ created' = CreatedAfter(
                    CreateAccountResult(value[AccountB], un, pw), un, pw)
    /\ UNCHANGED <<bkey, pending, last>>
    /\ UNCHANGED extVars

\* AuthProvider renders for the first time after a page load: both
\* initializers read the store, then both effects write what was read.
AuthProviderMount ==
    /\ \A b \in Bindings : status[b] = "unmounted"
    /\ LET r == [b \in Bindings |->
                    InitialValue(store, AuthKeys[b], AuthDefaults[b])]
       IN  IF \E b \in Bindings : r[b].raised
           THEN /\ status' = [b \in Bindings |-> "raised"]
                /\ res' = Tag("mount", Fail("render threw"), <<>>, <<>>)
                /\ UNCHANGED <<store, value>>
           ELSE /\ \E fails \in SUBSET Bindings :
                    /\ value' = [b \in Bindings |-> r[b].value]
                    /\ store' = AuthEffects(store, value', Bindings, fails)
                    /\ status' = [b \in Bindings |->
                                    IF b \in fails THEN "raised"
                                    ELSE "mounted"]
                /\ res' = Tag("mount", Ok, <<>>, <<>>)
    /\ created' = NoCreated
    /\ UNCHANGED <<bkey, pending, last>>
    /\ UNCHANGED extVars

\* The page is reloaded: the React state is gone, the store stays.
Reload ==
    /\ \E b \in Bindings : status[b] # "unmounted"
    /\ status' = [b \in Bindings |-> "unmounted"]
    /\ value' = [b \in Bindings |-> JUndefined]
    /\ res' = Tag("reload", Ok, <<>>, <<>>)
    /\ created' = NoCreated
    /\ UNCHANGED <<store, bkey, pending, last>>
    /\ UNCHANGED extVars

\* The texts typed into the form fields.
BaseNames == {<<"a">>, <<"A">>}
Pads == 0..MaxPad
FieldTexts ==
    {Blanks(i) : i \in Pads}
        \cup {Blanks(i) \o n \o Blanks(j) : i \in Pads, j \in Pads,
                                             n \in BaseNames}
\* The confirmation repeats the password or is another text.
Confirmations(pw) == {pw, <<"a">>}

AuthedInitEntries ==
    {Absent, Item(TextFalse), Item(TextTrue), Item(<<"{">>)}
AccountInitEntries ==
    {Absent, Item(TextNull), Item(Stringify(JAccount(<<"a">>, <<"A">>))),
     Item(<<"{">>)}

AuthInit ==
    /\ store \in {st \in [Keys -> AuthedInitEntries \cup AccountInitEntries] :
                    /\ st["isAuthed"] \in AuthedInitEntries
                    /\ st["auth:account"] \in AccountInitEntries}
    /\ status = [b \in Bindings |-> "unmounted"]
    /\ bkey = AuthKeys
    /\ value = [b \in Bindings |-> JUndefined]
    /\ pending = [b \in Bindings |-> "none"]
    /\ last = NoLast
    /\ res = NoRes
    /\ created = NoCreated
    /\ ExtIdle

AuthNext ==
    \/ AuthProviderMount
    \/ Reload
    \/ \E un \in FieldTexts, pw \in FieldTexts : Login(un, pw)
    \/ \E un \in FieldTexts, pw \in FieldTexts : CreateAccount(un, pw)
    \/ Logout
    \/ \E mode \in {"login", "create"}, un \in FieldTexts, pw \in FieldTexts :
            \E pw2 \in Confirmations(pw) : OnSubmit(mode, un, pw, pw2)

SpecAuth == AuthInit /\ [][AuthNext]_vars

----------------------------------------------------------------------------
(* Properties of the hook, checked under SpecHook.                         *)

\* What a binding that initialises on the key of the last step would get.
ReadsBack(v) ==
    \A d \in Defaults :
        InitialValue(store, bkey[last.b], d) = [raised |-> FALSE, value |-> v]

\* C1, as claimed: once the setter has been called with v, a binding that
\* initialises from the same key gets v, whatever its default; no state
\* after the call still shows the older stored value.
C1_ReadRightAfterSetter == last.op = "set" => ReadsBack(last.arg)

\* C1, amended: once the effect that follows a setter call has written v
\* and the storage has accepted it, a binding that initialises from the
\* same key gets v, whatever its default.
C1_ReadAfterEffect ==
    (last.op = "effect" /\ last.cause = "set" /\ ~last.threw)
        => ReadsBack(last.arg)

\* A falsy value has been written after a setter call, and a binding is
\* free to initialise from the key.
C1_Witness ==
    /\ last.op = "effect"
    /\ last.cause = "set"
    /\ ~last.threw
    /\ ~Truthy(last.arg)
    /\ \E b \in Bindings : status[b] = "unmounted"

\* C2: a binding that initialises from a key without an entry gets its
\* default, and an entry appears under a key only through the effect of a
\* setter call, never through the initialisation.
C2_ReadCreatesNoEntry ==
    [][/\ \A b \in Bindings :
            (last'.op = "mount" /\ last'.b = b /\ ~store[bkey'[b]].present)
                => (status'[b] = "mounted" /\ value'[b] = last'.arg)
       /\ \A k \in Keys :
            (~store[k].present /\ store'[k].present) => last'.cause = "set"
      ]_vars

\* C3: a binding that initialises from a key whose text is not JSON gets
\* its default, and no exception leaves the hook.
C3_CorruptReadsDefault ==
    \A b \in Bindings :
        (/\ last.op = "mount"
         /\ last.b = b
         /\ store[bkey[b]].present
         /\ ~Parse(store[bkey[b]].raw).ok)
            => (status[b] = "mounted" /\ value[b] = last.arg)

\* C4: when the storage throws on the write of the effect, no exception
\* leaves the hook and the binding still holds the value it tried to write.
C4_WriteFailureCaught ==
    (last.op = "effect" /\ last.threw)
        => (status[last.b] = "mounted" /\ value[last.b] = last.arg)

----------------------------------------------------------------------------
(* Properties of AuthProvider, checked under SpecAuth.  A step that leaves *)
(* res.op = "login" is a call of login, and res.user and res.input are the *)
(* texts it was given, trimmed; likewise for the other calls.               *)

isAuthed == value[AuthedB]
storedAccount == value[AccountB]
AccountStored == storedAccount.type = "object"

\* What a call returned, without the record of the call.
Returned(r) == [ok |-> r.ok, created |-> r.created, error |-> r.error]

\* C5: login returns ok exactly when an account is stored whose fields are
\* the trimmed username and the trimmed password; then isAuthed is true;
\* otherwise it returns a failure and changes neither isAuthed, nor the
\* account, nor the store.
C5_LoginIffMatch ==
    [][res'.op = "login" =>
          /\ res'.ok <=> (/\ AccountStored
                          /\ res'.user = storedAccount.username
                          /\ res'.input = storedAccount.password)
          /\ res'.ok => isAuthed' = JBool(TRUE)
          /\ ~res'.ok => (value' = value /\ store' = store)
          /\ storedAccount' = storedAccount
      ]_vars

\* A login has succeeded against an account made by createAccount.
C5_Witness ==
    /\ res.op = "login"
    /\ res.ok
    /\ isAuthed = JBool(TRUE)
    /\ created.set
    /\ res.user = created.user

C7_LogoutKeepsAccount ==
    [][/\ res'.op = "logout" =>
            /\ isAuthed' = JBool(FALSE)
            /\ storedAccount' = storedAccount
            /\ store'["auth:account"] = store["auth:account"]
       /\ (/\ created.set
           /\ res'.op = "login"
           /\ res'.user = created.user
           /\ res'.input = created.input)
            => (res'.ok /\ isAuthed' = JBool(TRUE))
      ]_vars

\* A logout has followed a createAccount, and the account is still held.
C7_Witness ==
    /\ res.op = "logout"
    /\ created.set
    /\ isAuthed = JBool(FALSE)
    /\ storedAccount = JAccount(created.user, created.input)

\* C8: a login with a username and a password, both non-empty, that fails
\* returns what it returns when no account is stored: the one error of a
\* credential mismatch, whether or not an account is stored.
C8_NonLeakingLogin ==
    (/\ res.op = "login"
     /\ res.user # <<>>
     /\ res.input # <<>>
     /\ ~res.ok)
        => (/\ res.error = ErrInvalidCredentials
            /\ Returned(res) = LoginResult(JNull, res.user, res.input))

\* A login with both fields filled in has failed against a stored account.
C8_Witness ==
    /\ res.op = "login"
    /\ ~res.ok
    /\ res.user # <<>>
    /\ res.input # <<>>
    /\ AccountStored

\* C9, as claimed: a login whose username or password is empty after
\* trimming fails with an error that is not the error of a credential
\* mismatch, and leaves isAuthed as it is.
C9_InvalidInputDistinct ==
    [][(res'.op = "login" /\ (res'.user = <<>> \/ res'.input = <<>>))
          => (/\ ~res'.ok
              /\ res'.error # ErrInvalidCredentials
              /\ isAuthed' = isAuthed)
      ]_vars

\* C9, amended: a login whose username or password is empty after trimming
\* fails with the same error as a credential mismatch, whatever account is
\* stored, and leaves isAuthed, the account and the store as they are.
C9_EmptyInputRejected ==
    [][(res'.op = "login" /\ (res'.user = <<>> \/ res'.input = <<>>))
          => (/\ ~res'.ok
              /\ res'.error = ErrInvalidInput
              /\ res'.error = ErrInvalidCredentials
              /\ value' = value
              /\ store' = store)
      ]_vars

\* A login with an empty field has failed while an account is stored.
C9_Witness ==
    /\ res.op = "login"
    /\ ~res.ok
    /\ (res.user = <<>> \/ res.input = <<>>)
    /\ AccountStored

\* C10: createAccount with a username empty after trimming fails with
\* "Username required"; with a username and a password empty after
\* trimming, with "Password required"; and no failing login, createAccount
\* or form submit changes isAuthed, the account or the store.
C10_ValidationNoChange ==
    [][/\ res'.op = "createAccount" =>
            /\ res'.user = <<>> =>
                    (~res'.ok /\ res'.error = ErrUsernameRequired)
            /\ (res'.user # <<>> /\ res'.input = <<>>) =>
                    (~res'.ok /\ res'.error = ErrPasswordRequired)
       /\ (res'.op \in {"login", "createAccount", "onSubmit"} /\ ~res'.ok)
            => (value' = value /\ store' = store /\ status' = status)
      ]_vars

\* createAccount has refused an empty password given with a username.
C10_Witness ==
    /\ res.op = "createAccount"
    /\ ~res.ok
    /\ res.error = ErrPasswordRequired
    /\ res.user # <<>>
    /\ res.input = <<>>

\* The texts that JSON.parse reads as an account, among those the store
\* of this model can hold.
AccountTexts ==
    {Stringify(JAccount(u, p)) : u \in BaseNames, p \in BaseNames}

\* An open session has an account, in memory and in the store: isAuthed
\* true in memory goes with an account in memory, and the text "true" under
\* "isAuthed" goes with the text of an account under "auth:account".
SessionHasAccount ==
    /\ isAuthed = JBool(TRUE) => AccountStored
    /\ store["isAuthed"] = Item(TextTrue) =>
            /\ store["auth:account"].present
            /\ store["auth:account"].raw \in AccountTexts

----------------------------------------------------------------------------
(* Posts.  A post is a record of one shape; a field the object does not    *)
(* have holds Undefined.  Text fields are sequences of one-character       *)
(* strings.                                                                 *)

Undefined == [type |-> "undefined", s |-> <<>>, n |-> 0]
Null == [type |-> "null", s |-> <<>>, n |-> 0]
Str(s) == [type |-> "string", s |-> s, n |-> 0]
Num(n) == [type |-> "number", s |-> <<>>, n |-> n]
NaN == [type |-> "NaN", s |-> <<>>, n |-> 0]

\* p.tags when it is an array of strings, and when the object has none;
\* tags that are no array (a text, say) have isArray FALSE and their items.
Tags(items) == [isArray |-> TRUE, items |-> items]
NoTags == [isArray |-> FALSE, items |-> <<>>]

Post(id, title, content, body, excerpt, tags, img, createdAt, date, pub) ==
    [id |-> id, title |-> title, content |-> content, body |-> body,
     excerpt |-> excerpt, tags |-> tags, image |-> img,
     createdAt |-> createdAt, date |-> date, publishedAt |-> pub]

\* `v || ...`: a value that is not falsy (non-zero numbers, non-empty
\* strings).
IsTruthy(v) ==
    \/ v.type = "string" /\ v.s # <<>>
    \/ v.type = "number" /\ v.n # 0

\* `v ?? ...` takes the right side on null and undefined only.
Nullish(v) == v.type \in {"undefined", "null"}

\* The n-th string crypto.randomUUID hands out: never one it handed out
\* before, and never one found in the store.
Uuid(n) == <<"u">> \o [i \in 1..n |-> "'"]

\* 1000 * 60 * 60 * 24
Day == 86400000

\* The title, the body and the tags of the three default posts.
DefaultTexts ==
    <<
       [title |->
           <<"W", "e", "l", "c", "o", "m", "e", " ", "t", "o", " ", "t", "h", "e",
            " ", "B", "l", "o", "g">>,
        body |->
           <<"T", "h", "i", "s", " ", "i", "s", " ", "y", "o", "u", "r", " ", "f",
            "i", "r", "s", "t", " ", "p", "o", "s", "t", ".", " ", "Y", "o", "u",
            " ", "c", "a", "n", " ", "e", "d", "i", "t", " ", "o", "r", " ", "d",
            "e", "l", "e", "t", "e", " ", "i", "t", ",", " ", "o", "r", " ", "c",
            "r", "e", "a", "t", "e", " ", "y", "o", "u", "r", " ", "o", "w", "n",
            ".", " ", "P", "r", "o", " ", "t", "i", "p", ":", " ", "a", "d", "d",
            " ", "t", "a", "g", "s", " ", "l", "i", "k", "e", " ", "#", "i", "n",
            "t", "r", "o", " ", "t", "o", " ", "m", "a", "k", "e", " ", "f", "i",
            "l", "t", "e", "r", "i", "n", "g", " ", "e", "a", "s", "i", "e", "r",
            ".">>,
        tags |-> <<<<"i", "n", "t", "r", "o">>,
                   <<"w", "e", "l", "c", "o", "m", "e">>>>],
       [title |->
           <<"A", "d", "d", "i", "n", "g", " ", "I", "m", "a", "g", "e", "s", " ",
            "t", "o", " ", "P", "o", "s", "t", "s">>,
        body |->
           <<"A", "t", "t", "a", "c", "h", " ", "a", " ", "p", "h", "o", "t", "o",
            " ", "t", "o", " ", "y", "o", "u", "r", " ", "p", "o", "s", "t", ".",
            " ", "L", "a", "r", "g", "e", " ", "i", "m", "a", "g", "e", "s", " ",
            "a", "r", "e", " ", "d", "o", "w", "n", "s", "c", "a", "l", "e", "d",
            " ", "i", "n", " ", "s", "o", "m", "e", " ", "p", "l", "a", "c", "e",
            "s", " ", "t", "o", " ", "k", "e", "e", "p", " ", "t", "h", "i", "n",
            "g", "s", " ", "s", "n", "a", "p", "p", "y", ".">>,
        tags |-> <<<<"h", "o", "w", "t", "o">>,
                   <<"i", "m", "a", "g", "e", "s">>>>],
       [title |->
           <<"T", "a", "g", " ", "F", "i", "l", "t", "e", "r", "i", "n", "g", " ",
            "D", "e", "m", "o">>,
        body |->
           <<"U", "s", "e", " ", "t", "h", "e", " ", "t", "a", "g", " ", "c", "h",
            "i", "p", "s", " ", "a", "b", "o", "v", "e", " ", "t", "h", "e", " ",
            "l", "i", "s", "t", " ", "t", "o", " ", "f", "i", "l", "t", "e", "r",
            " ", "p", "o", "s", "t", "s", ".", " ", "T", "r", "y", " ", "c", "l",
            "i", "c", "k", "i", "n", "g", " ", "o", "n", " ", "#", "d", "e", "m",
            "o", " ", "o", "r", " ", "#", "t", "i", "p", "s", ".">>,
        tags |-> <<<<"d", "e", "m", "o">>,
                   <<"t", "i", "p", "s">>>>]
    >>

Placeholder ==
    <<"/", "p", "l", "a", "c", "e", "h", "o", "l", "d", "e", "r", ".", "j",
      "p", "g">>

\* makeDefaults giving the three posts one time.
MakeDefaultsOneStamp(n, now) ==
    [i \in 1..3 |->
        Post(Str(Uuid(n + i)), Str(DefaultTexts[i].title), Undefined,
             Str(DefaultTexts[i].body), Undefined,
             Tags(DefaultTexts[i].tags), Str(Placeholder),
             Num(now), Undefined, Undefined)]

\* makeDefaults, when randomUUID has handed out n ids and Date.now() is now.
MakeDefaults(n, now) ==
    [i \in 1..3 |->
        Post(Str(Uuid(n + i)), Str(DefaultTexts[i].title), Undefined,
             Str(DefaultTexts[i].body), Undefined,
             Tags(DefaultTexts[i].tags), Str(Placeholder),
             Num(now - (i - 1) * Day), Undefined, Undefined)]

(* The text kept under "posts" is written as the JSON document it spells:  *)
(* <<"array", items>> for an array of post objects, <<"null">> and          *)
(* <<"object">> for two JSON values that are no arrays, <<"corrupt">> for a *)
(* text JSON.parse refuses, and <<>> for the empty text.                    *)
PostsKey == "posts"
ArrayText(items) == <<"array", items>>
OtherText(kind) == <<kind>>
EmptyText == <<>>
Kind(text) == IF text = <<>> THEN "empty" ELSE text[1]
ItemsOf(text) == text[2]

\* JSON.stringify of one post: a property holding undefined is left out,
\* which reads back as undefined; strings, numbers, null and arrays of
\* strings are spelled as they are.
StringifyPost(p) ==
    [f \in DOMAIN p |->
        IF f = "tags" THEN p[f]
        ELSE IF p[f].type \in {"string", "number", "null"} THEN p[f]
        ELSE IF p[f].type = "NaN" THEN Null
        ELSE Undefined]

StringifyPosts(ps) == ArrayText([i \in 1..Len(ps) |-> StringifyPost(ps[i])])

\* localStorage.removeItem
RemoveItem(st, k) == [st EXCEPT ![k] = Absent]

\* savePosts writing the empty array like any other.
SavePostsKeepingEmpty(st, ps, quota) ==
    IF quota THEN st
    ELSE SetItem(st, PostsKey, StringifyPosts(ps))

\* savePosts; quota: the storage refuses the write (caught and logged).
SavePosts(st, ps, quota) ==
    IF Len(ps) = 0 THEN RemoveItem(st, PostsKey)
    ELSE IF quota THEN st
    ELSE SetItem(st, PostsKey, StringifyPosts(ps))

\* `localStorage.getItem("posts") || "[]"`
PostsTextOr(e) == IF RawTruthy(e) THEN e.raw ELSE ArrayText(<<>>)

\* The normalisation with one id for all the posts that lack one.
NormalizeOneId(raw, n) ==
    [i \in 1..Len(raw) |->
        IF Nullish(raw[i].id)
        THEN [raw[i] EXCEPT !.id = Str(Uuid(n + 1))]
        ELSE raw[i]]

\* raw.map((p) => ({ ...p, id: p.id ?? crypto.randomUUID() }))
Normalize(raw, n) ==
    [i \in 1..Len(raw) |->
        IF Nullish(raw[i].id)
        THEN [raw[i] EXCEPT
                !.id = Str(Uuid(n + Cardinality({j \in 1..i :
                                                   Nullish(raw[j].id)})))]
        ELSE raw[i]]

\* getPosts: what it returns, the store it leaves, and the ids it drew.
GetPosts(st, n, now, quota) ==
    LET text == PostsTextOr(GetItem(st, PostsKey))
        defaults == MakeDefaults(n, now)
        seeded == [posts |-> defaults,
                   store |-> SavePosts(st, defaults, quota),
                   used |-> 3]
    IN  IF Kind(text) = "corrupt" THEN seeded
        ELSE IF Kind(text) = "array" /\ Len(ItemsOf(text)) > 0
        THEN [posts |-> Normalize(ItemsOf(text), n),
              store |-> st,
              used |-> Cardinality({j \in 1..Len(ItemsOf(text)) :
                                      Nullish(ItemsOf(text)[j].id)})]
        ELSE seeded

----------------------------------------------------------------------------
(* The derived list of Blog (the useMemo named filtered).                   *)

\* haystack.includes(needle)
Includes(hay, needle) ==
    \E i \in 0..(Len(hay) - Len(needle)) :
        SubSeq(hay, i + 1, i + Len(needle)) = needle

\* (v || ""), for a text field
TextOr(v) == IF IsTruthy(v) THEN v.s ELSE <<>>

\* p.content || p.body || p.excerpt || ""
PrimaryContent(p) ==
    IF IsTruthy(p.content) THEN p.content
    ELSE IF IsTruthy(p.body) THEN p.body
    ELSE IF IsTruthy(p.excerpt) THEN p.excerpt
    ELSE Str(<<>>)

\* The tags taken as they are, array or not.
TagItemsOfAny(p) == p.tags.items

\* Array.isArray(p.tags) ? p.tags : []
TagItems(p) == IF p.tags.isArray THEN p.tags.items ELSE <<>>

\* The callback of the search filter.
MatchesSearch(p, needle) ==
    \/ Includes(ToLower(TextOr(p.title)), needle)
    \/ Includes(ToLower(TextOr(PrimaryContent(p))), needle)
    \/ \E i \in 1..Len(TagItems(p)) :
            Includes(ToLower(TagItems(p)[i]), needle)

\* selectedTags.every((t) => tags.includes(t))
HasEveryTag(p, sel) ==
    \A i \in 1..Len(sel) :
        \E j \in 1..Len(TagItems(p)) : TagItems(p)[j] = sel[i]

\* Date.parse on the texts of this model: the ISO dates 1970-01-01 to
\* 1970-01-09 are the milliseconds since the epoch, any other text and any
\* value that is not a text is NaN.
IsoPrefix == <<"1", "9", "7", "0", "-", "0", "1", "-", "0">>
Digits == <<"1", "2", "3", "4", "5", "6", "7", "8", "9">>
IsoDate(d) == IsoPrefix \o <<Digits[d]>>
DateParse(v) ==
    IF /\ v.type = "string"
       /\ Len(v.s) = 10
       /\ SubSeq(v.s, 1, 9) = IsoPrefix
       /\ \E d \in 1..9 : Digits[d] = v.s[10]
    THEN Num(((CHOOSE d \in 1..9 : Digits[d] = v.s[10]) - 1) * Day)
    ELSE NaN

\* getTime
GetTime(p) ==
    IF p.createdAt.type = "number" THEN p.createdAt.n
    ELSE LET arg == IF IsTruthy(p.date) THEN p.date
                    ELSE IF IsTruthy(p.publishedAt) THEN p.publishedAt
                    ELSE p.createdAt
             t == DateParse(arg)
         IN  IF t.type = "NaN" THEN 0 ELSE t.n

\* The comparator handed to sort.
Compare(a, b, order) ==
    IF order = "newest" THEN GetTime(b) - GetTime(a)
    ELSE GetTime(a) - GetTime(b)

\* Array.prototype.sort is stable: p goes before the first element it
\* compares below, after every element it ties with.
InsertSorted(sorted, p, order) ==
    LET below == {i \in 1..Len(sorted) : Compare(p, sorted[i], order) < 0}
    IN  IF below = {} THEN Append(sorted, p)
        ELSE LET k == CHOOSE i \in below : \A j \in below : i <= j
             IN  SubSeq(sorted, 1, k - 1) \o <<p>>
                    \o SubSeq(sorted, k, Len(sorted))

RECURSIVE SortPosts(_, _)
SortPosts(list, order) ==
    IF Len(list) = 0 THEN <<>>
    ELSE InsertSorted(SortPosts(SubSeq(list, 1, Len(list) - 1), order),
                      list[Len(list)], order)

\* The search filter keeping a post when any selected tag is on it.
FilteredAnyTag(ps, text, sel, order) ==
    LET needle == ToLower(Trim(text))
        found == IF needle = <<>> THEN ps
                 ELSE SelectSeq(ps, LAMBDA p : MatchesSearch(p, needle))
        tagged == IF Len(sel) > 0
                  THEN SelectSeq(found,
                        LAMBDA p : \E i \in 1..Len(sel) :
                                        HasEveryTag(p, <<sel[i]>>))
                  ELSE found
    IN  SortPosts(tagged, order)

\* The list without the sort.
FilteredUnsorted(ps, text, sel, order) ==
    LET needle == ToLower(Trim(text))
        found == IF needle = <<>> THEN ps
                 ELSE SelectSeq(ps, LAMBDA p : MatchesSearch(p, needle))
    IN  IF Len(sel) > 0
        THEN SelectSeq(found, LAMBDA p : HasEveryTag(p, sel))
        ELSE found

\* The search matching the title and the tags only.
FilteredTitleAndTags(ps, text, sel, order) ==
    LET needle == ToLower(Trim(text))
        found == IF needle = <<>> THEN ps
                 ELSE SelectSeq(ps,
                        LAMBDA p :
                            \/ Includes(ToLower(TextOr(p.title)), needle)
                            \/ \E i \in 1..Len(TagItems(p)) :
                                 Includes(ToLower(TagItems(p)[i]), needle))
        tagged == IF Len(sel) > 0
                  THEN SelectSeq(found, LAMBDA p : HasEveryTag(p, sel))
                  ELSE found
    IN  SortPosts(tagged, order)

Filtered(ps, text, sel, order) ==
    LET needle == ToLower(Trim(text))
        found == IF needle = <<>> THEN ps
                 ELSE SelectSeq(ps, LAMBDA p : MatchesSearch(p, needle))
        tagged == IF Len(sel) > 0
                  THEN SelectSeq(found, LAMBDA p : HasEveryTag(p, sel))
                  ELSE found
    IN  SortPosts(tagged, order)

\* The elements of an array.
Range(seq) == {seq[i] : i \in 1..Len(seq)}

\* posts.flatMap((p) => (Array.isArray(p.tags) ? p.tags : []))
RECURSIVE FlatTags(_)
FlatTags(ps) ==
    IF Len(ps) = 0 THEN <<>>
    ELSE TagItems(ps[1]) \o FlatTags(Tail(ps))

\* A deduplication that keeps a tag where it comes last.
RECURSIVE UniqueKeepingLast(_)
UniqueKeepingLast(seq) ==
    IF Len(seq) = 0 THEN <<>>
    ELSE LET back == UniqueKeepingLast(Tail(seq))
         IN  IF Head(seq) \in Range(back) THEN back ELSE <<Head(seq)>> \o back

\* Array.from(new Set(tags)): every tag once, where it comes first.
RECURSIVE Unique(_)
Unique(seq) ==
    IF Len(seq) = 0 THEN <<>>
    ELSE LET front == Unique(SubSeq(seq, 1, Len(seq) - 1))
             x == seq[Len(seq)]
         IN  IF x \in Range(front) THEN front ELSE Append(front, x)

\* allTags
AllTags(ps) == Unique(FlatTags(ps))

----------------------------------------------------------------------------
(* The Blog component.  Every render calls getPosts() again, since it is   *)
(* the argument of useState; only the first render keeps what it returns.  *)

\* Date.now() at the steps of this model.
Nows == {3 * Day}

\* Blog comes on screen (the Blog tab is chosen, or the page loads on it):
\* the first render keeps the result of getPosts(), then the effect saves it.
BlogMount(now, quota) ==
    /\ blogStatus = "unmounted"
    /\ ProviderMounted
    /\ LET g == GetPosts(store, fresh, now, quota)
       IN  /\ fresh + g.used <= MaxIds
           /\ posts' = g.posts
           /\ store' = SavePosts(g.store, g.posts, quota)
           /\ filtered' = Filtered(g.posts, <<>>, <<>>, "newest")
           /\ fresh' = fresh + g.used
    /\ blogStatus' = "mounted"
    /\ search' = <<>>
    /\ selectedTags' = <<>>
    /\ sort' = "newest"
    /\ out' = [out EXCEPT !.op = "mount", !.quota = quota]
    /\ UNCHANGED <<status, bkey, value, pending, last, res, created>>
    /\ UNCHANGED <<appVars, encVars, profile>>

\* Blog leaves the screen (another tab, or the page is closed).
BlogUnmount ==
    /\ blogStatus = "mounted"
    /\ blogStatus' = "unmounted"
    /\ posts' = <<>>
    /\ search' = <<>>
    /\ selectedTags' = <<>>
    /\ sort' = "newest"
    /\ filtered' = <<>>
    /\ out' = [out EXCEPT !.op = "unmount", !.quota = FALSE]
    /\ UNCHANGED <<store, status, bkey, value, pending, last, res, created,
                   fresh>>
    /\ UNCHANGED <<appVars, encVars, profile>>

\* tags.split(",").map((t) => t.trim()).filter(Boolean)
RECURSIVE SplitComma(_)
SplitComma(s) ==
    LET commas == {i \in 1..Len(s) : s[i] = ","}
    IN  IF commas = {} THEN <<s>>
        ELSE LET k == CHOOSE i \in commas : \A j \in commas : i <= j
             IN  <<SubSeq(s, 1, k - 1)>>
                    \o SplitComma(SubSeq(s, k + 1, Len(s)))

TagList(text) ==
    LET parts == SplitComma(text)
        trimmed == [i \in 1..Len(parts) |-> Trim(parts[i])]
    IN  SelectSeq(trimmed, LAMBDA t : t # <<>>)

\* A post built under the id that was handed out last.
NewPostWithLastId(n, title, body, tags, img, now) ==
    Post(Str(Uuid(n)), Str(Trim(title)), Undefined, Str(Trim(body)),
         Undefined, Tags(TagList(tags)), Str(img), Num(now), Undefined,
         Undefined)

\* The post that submit builds.
NewPost(n, title, body, tags, img, now) ==
    Post(Str(Uuid(n + 1)), Str(Trim(title)), Undefined, Str(Trim(body)),
         Undefined, Tags(TagList(tags)), Str(img), Num(now), Undefined,
         Undefined)

\* submit of a form that is on screen whatever isAuthed is.
SubmitUngated(title, body, tags, now, quota) ==
    /\ blogStatus = "mounted"
    /\ Trim(title) # <<>>
    /\ Len(posts) < MaxPosts
    /\ fresh < MaxIds
    /\ posts' = <<NewPost(fresh, title, body, tags, image, now)>> \o posts
    /\ LET g == GetPosts(store, fresh + 1, now, quota)
       IN  /\ fresh + 1 + g.used <= MaxIds
           /\ store' = SavePosts(g.store, posts', quota)
           /\ fresh' = fresh + 1 + g.used
    /\ filtered' = Filtered(posts', search, selectedTags, sort)
    /\ out' = [op |-> "create", quota |-> quota, emptied |-> FALSE]
    /\ UNCHANGED <<status, bkey, value, pending, last, res, created,
                   blogStatus, search, selectedTags, sort>>
    /\ image' = <<>>
    /\ UNCHANGED <<appVars, tasks, picked, draftPhoto, images, notices, enc,
                   profile>>

\* submit of BlogPostForm with onCreate of Blog, then the form is reset.
\* The form is on screen only while isAuthed is true.
Submit(title, body, tags, now, quota) ==
    /\ blogStatus = "mounted"
    /\ Truthy(value[AuthedB])
    /\ Trim(title) # <<>>
    /\ Len(posts) < MaxPosts
    /\ fresh < MaxIds
    /\ posts' = <<NewPost(fresh, title, body, tags, image, now)>> \o posts
    /\ LET g == GetPosts(store, fresh + 1, now, quota)
       IN  /\ fresh + 1 + g.used <= MaxIds
           /\ store' = SavePosts(g.store, posts', quota)
           /\ fresh' = fresh + 1 + g.used
    /\ filtered' = Filtered(posts', search, selectedTags, sort)
    /\ out' = [op |-> "create", quota |-> quota, emptied |-> FALSE]
    /\ UNCHANGED <<status, bkey, value, pending, last, res, created,
                   blogStatus, search, selectedTags, sort>>
    /\ image' = <<>>
    /\ UNCHANGED <<appVars, tasks, picked, draftPhoto, images, notices, enc,
                   profile>>

\* The Delete button of a card, confirmed.  The button is on screen only
\* while isAuthed is true, on the cards of the derived list.
DeletePost(id, now, quota) ==
    /\ blogStatus = "mounted"
    /\ Truthy(value[AuthedB])
    /\ \E i \in 1..Len(filtered) : filtered[i].id = id
    /\ posts' = SelectSeq(posts, LAMBDA p : p.id # id)
    /\ LET g == GetPosts(store, fresh, now, quota)
       IN  /\ fresh + g.used <= MaxIds
           /\ store' = SavePosts(g.store, posts', quota)
           /\ fresh' = fresh + g.used
    /\ filtered' = Filtered(posts', search, selectedTags, sort)
    /\ out' = [op |-> "delete", quota |-> quota,
               emptied |-> Len(posts') = 0]
    /\ UNCHANGED <<status, bkey, value, pending, last, res, created,
                   blogStatus, search, selectedTags, sort>>
    /\ UNCHANGED <<appVars, encVars, profile>>

\* A render whose sort works on posts itself and not on a copy of it.
BlogRenderSortingPosts(text, sel, order, now, quota, op) ==
    /\ blogStatus = "mounted"
    /\ <<text, sel, order>> # <<search, selectedTags, sort>>
    /\ search' = text
    /\ selectedTags' = sel
    /\ sort' = order
    /\ LET g == GetPosts(store, fresh, now, quota)
       IN  /\ fresh + g.used <= MaxIds
           /\ store' = g.store
           /\ fresh' = fresh + g.used
    /\ filtered' = Filtered(posts, text, sel, order)
    /\ posts' = IF Trim(text) = <<>> /\ Len(sel) = 0
                THEN SortPosts(posts, order)
                ELSE posts
    /\ out' = [out EXCEPT !.op = op, !.quota = quota]
    /\ UNCHANGED <<status, bkey, value, pending, last, res, created,
                   blogStatus>>
    /\ UNCHANGED <<appVars, encVars, profile>>

\* A state change of Blog that leaves posts alone: render, no save.
BlogRender(text, sel, order, now, quota, op) ==
    /\ blogStatus = "mounted"
    /\ <<text, sel, order>> # <<search, selectedTags, sort>>
    /\ search' = text
    /\ selectedTags' = sel
    /\ sort' = order
    /\ LET g == GetPosts(store, fresh, now, quota)
       IN  /\ fresh + g.used <= MaxIds
           /\ store' = g.store
           /\ fresh' = fresh + g.used
    /\ filtered' = Filtered(posts, text, sel, order)
    /\ out' = [out EXCEPT !.op = op, !.quota = quota]
    /\ UNCHANGED <<status, bkey, value, pending, last, res, created,
                   blogStatus, posts>>
    /\ UNCHANGED <<appVars, encVars, profile>>

\* SearchBar: onChange={setSearch}
SetSearch(text, now, quota) ==
    BlogRender(text, selectedTags, sort, now, quota, "search")

\* onToggleTag, from a chip of TagFilter
OnToggleTag(tag, now, quota) ==
    /\ tag \in Range(AllTags(posts))
    /\ \/ \E i \in 1..Len(selectedTags) : selectedTags[i] = tag
       \/ Len(selectedTags) < MaxSelected
    /\ BlogRender(search,
                  IF \E i \in 1..Len(selectedTags) : selectedTags[i] = tag
                  THEN SelectSeq(selectedTags, LAMBDA x : x # tag)
                  ELSE Append(selectedTags, tag),
                  sort, now, quota, "toggle")

\* The select: onChange={(e) => setSort(e.target.value)}
SetSort(order, now, quota) ==
    BlogRender(search, selectedTags, order, now, quota, "sort")

\* login or logout changes isAuthed: AuthProvider renders and its effect
\* writes the flag; Blog, which reads the context, renders again.
SetAuthedWithBlog(flag, now, quota) ==
    /\ ProviderMounted
    /\ ~ObjectIs(JBool(flag), value[AuthedB])
    /\ value' = [value EXCEPT ![AuthedB] = JBool(flag)]
    /\ LET st1 == EffectStore(store, AuthKeys[AuthedB], JBool(flag), FALSE)
           g == GetPosts(st1, fresh, now, quota)
       IN  IF blogStatus = "mounted"
           THEN /\ fresh + g.used <= MaxIds
                /\ store' = g.store
                /\ fresh' = fresh + g.used
           ELSE /\ store' = st1
                /\ fresh' = fresh
    /\ out' = [out EXCEPT !.op = "session", !.quota = quota]
    /\ UNCHANGED <<status, bkey, pending, last, created,
                   blogStatus, posts, search, selectedTags, sort, filtered>>
    /\ UNCHANGED <<appVars, encVars, profile>>

LoginWithBlog(un, pw, now, quota) ==
    /\ LoginResult(value[AccountB], un, pw).ok
    /\ SetAuthedWithBlog(TRUE, now, quota)
    /\ res' = Tag("login", LoginResult(value[AccountB], un, pw), un, pw)

LogoutWithBlog(now, quota) ==
    /\ SetAuthedWithBlog(FALSE, now, quota)
    /\ res' = Tag("logout", Ok, <<>>, <<>>)

----------------------------------------------------------------------------
(* The Blog with stored posts of any kind, and a session that changes.     *)

BlogKeys == Keys \cup {PostsKey}

\* Posts as older versions of the page stored them.
LegacyPost(id, title) ==
    Post(id, Str(title), Undefined, Undefined, Undefined, NoTags, Undefined,
         Num(Day), Undefined, Undefined)

StoredCollections ==
    { <<LegacyPost(Undefined, <<"a">>)>>,
      <<LegacyPost(Str(<<"k">>), <<"a">>), LegacyPost(Null, <<"b">>),
        LegacyPost(Undefined, <<"b">>)>>,
      <<LegacyPost(Str(<<"k">>), <<"a">>)>>,
      <<LegacyPost(Str(<<>>), <<"a">>), LegacyPost(Str(<<"k">>), <<"b">>)>> }

PostsInitEntries ==
    {Absent, Item(EmptyText), Item(ArrayText(<<>>)), Item(OtherText("null")),
     Item(OtherText("object")), Item(OtherText("corrupt"))}
        \cup {Item(ArrayText(c)) : c \in StoredCollections}

TheAccount == JAccount(<<"a">>, <<"A">>)

\* AuthProvider is up, with an account stored and the session either way.
SessionInit ==
    /\ status = [b \in Bindings |-> "mounted"]
    /\ bkey = AuthKeys
    /\ \E a \in BOOLEAN :
        /\ value = [b \in Bindings |->
                        IF b = AuthedB THEN JBool(a) ELSE TheAccount]
        /\ \E e \in PostsInitEntries :
            store = [k \in BlogKeys |->
                        IF k = PostsKey THEN e
                        ELSE IF k = "isAuthed" THEN Item(Stringify(JBool(a)))
                        ELSE Item(Stringify(TheAccount))]
    /\ pending = [b \in Bindings |-> "none"]
    /\ last = NoLast
    /\ res = NoRes
    /\ created = NoCreated

PostsInit ==
    /\ SessionInit
    /\ BlogIdle
    /\ AppIdle
    /\ EncodeIdle
    /\ ProfileIdle

FormTitles == {<<" ">>, <<" ", "b", " ">>}
FormTags == {<<"a", ",", " ", "b", ",">>}
SearchTexts == {<<>>, <<"a">>}

PostsNext ==
    \/ \E now \in Nows, quota \in BOOLEAN : BlogMount(now, quota)
    \/ BlogUnmount
    \/ \E title \in FormTitles, tags \in FormTags, now \in Nows,
          quota \in BOOLEAN : Submit(title, <<>>, tags, now, quota)
    \/ \E i \in 1..Len(filtered), now \in Nows, quota \in BOOLEAN :
            DeletePost(filtered[i].id, now, quota)
    \/ \E text \in SearchTexts, now \in Nows, quota \in BOOLEAN :
            SetSearch(text, now, quota)
    \/ \E un \in BaseNames, pw \in BaseNames, now \in Nows,
          quota \in BOOLEAN : LoginWithBlog(un, pw, now, quota)
    \/ \E now \in Nows, quota \in BOOLEAN : LogoutWithBlog(now, quota)

SpecPosts == PostsInit /\ [][PostsNext]_vars

----------------------------------------------------------------------------
(* The derived list over collections of posts of every shape.              *)

DeriveRecords ==
    { Post(Str(<<"p", "1">>), Str(<<"A", "b">>), Undefined,
           Str(<<"b", "a">>), Str(<<"c">>), Tags(<<<<"a">>, <<"B">>>>),
           Undefined, Num(2 * Day), Undefined, Undefined),
      Post(Str(<<"p", "2">>), Str(<<"b">>), Str(<<"a">>),
           Str(<<"A", "b">>), Undefined,
           [isArray |-> FALSE, items |-> <<<<"c">>>>],
           Undefined, Str(IsoDate(2)), Str(<<"x">>), Undefined),
      Post(Str(<<"p", "3">>), Undefined, Str(<<>>), Undefined,
           Str(<<"a", " ", "b">>), Tags(<<<<"a">>>>),
           Undefined, Undefined, Str(IsoDate(4)), Str(IsoDate(1))),
      Post(Str(<<"p", "4">>), Str(<<"c">>), Undefined, Undefined,
           Undefined, Tags(<<<<"a">>, <<"b">>>>),
           Undefined, Str(<<"x">>), Undefined, Str(IsoDate(3))),
      Post(Str(<<"p", "5">>), Str(<<"B", "A">>), Null, Str(<<>>),
           Undefined, Tags(<<<<"b">>>>),
           Undefined, Null, Undefined, Undefined) }

\* The collections: posts of DeriveRecords in any order, none twice.
DeriveCollections ==
    {c \in UNION {[1..n -> DeriveRecords] : n \in 1..MaxShown} :
        \A i \in 1..Len(c), j \in 1..Len(c) : c[i] = c[j] => i = j}

DeriveSearchTexts == {<<>>, <<" ">>, <<"B">>, <<" ", "A", "b">>, <<"c">>}

\* Blog is on screen with a collection it has loaded and saved.
DeriveInit ==
    /\ status = [b \in Bindings |-> "mounted"]
    /\ bkey = AuthKeys
    /\ value = [b \in Bindings |->
                    IF b = AuthedB THEN JBool(FALSE) ELSE TheAccount]
    /\ pending = [b \in Bindings |-> "none"]
    /\ last = NoLast
    /\ res = NoRes
    /\ created = NoCreated
    /\ blogStatus = "mounted"
    /\ posts \in DeriveCollections
    /\ store = [k \in BlogKeys |->
                    IF k = PostsKey THEN Item(StringifyPosts(posts))
                    ELSE IF k = "isAuthed" THEN Item(TextFalse)
                    ELSE Item(Stringify(TheAccount))]
    /\ search = <<>>
    /\ selectedTags = <<>>
    /\ sort = "newest"
    /\ filtered = Filtered(posts, <<>>, <<>>, "newest")
    /\ fresh = 0
    /\ out = NoOut
    /\ AppIdle
    /\ EncodeIdle
    /\ ProfileIdle

DeriveNext ==
    \/ \E text \in DeriveSearchTexts, now \in Nows :
            SetSearch(text, now, FALSE)
    \/ \E tag \in Range(AllTags(posts)), now \in Nows :
            OnToggleTag(tag, now, FALSE)
    \/ \E order \in {"newest", "oldest"}, now \in Nows : SetSort(order, now, FALSE)

SpecDerive == DeriveInit /\ [][DeriveNext]_vars

----------------------------------------------------------------------------
(* Properties of the posts collection, checked under SpecPosts.  A step    *)
(* from blogStatus "unmounted" to "mounted" is a load: posts' is what      *)
(* getPosts returned.                                                       *)

Loads == blogStatus = "unmounted" /\ blogStatus' = "mounted"

storedPosts == store[PostsKey]

\* Nothing getPosts takes for a collection is stored: no entry, the empty
\* text, an empty array, a JSON value that is no array, or no JSON at all.
NothingStored ==
    \/ ~storedPosts.present
    \/ storedPosts.raw = EmptyText
    \/ Kind(storedPosts.raw) \in {"null", "object", "corrupt"}
    \/ Kind(storedPosts.raw) = "array" /\ Len(ItemsOf(storedPosts.raw)) = 0

\* The three default posts, whatever their ids and the time they were made.
AreDefaults(ps) ==
    /\ Len(ps) = 3
    /\ \A i \in 1..3 :
        /\ ps[i].title = Str(DefaultTexts[i].title)
        /\ ps[i].body = Str(DefaultTexts[i].body)
        /\ ps[i].tags = Tags(DefaultTexts[i].tags)
        /\ ps[i].image = Str(Placeholder)

\* C11: a load that finds no entry, the empty text, an empty array, a value
\* that is no array or a text that is no JSON returns the three default
\* posts, with ids that differ from one another and createdAt strictly
\* decreasing, and (the storage accepting the write) the store then holds
\* under "posts" exactly the sequence returned, ids included.
C11_SeedsDefaults ==
    [][(Loads /\ NothingStored) =>
          /\ AreDefaults(posts')
          /\ \A i \in 1..3 :
                /\ posts'[i].id.type = "string"
                /\ posts'[i].id.s # <<>>
                /\ posts'[i].createdAt.type = "number"
                /\ \A j \in 1..3 : posts'[i].id = posts'[j].id => i = j
          /\ posts'[1].createdAt.n > posts'[2].createdAt.n
          /\ posts'[2].createdAt.n > posts'[3].createdAt.n
          /\ ~out'.quota =>
                /\ storedPosts'.present
                /\ Kind(storedPosts'.raw) = "array"
                /\ Len(ItemsOf(storedPosts'.raw)) = 3
                /\ \A i \in 1..3 :
                      /\ ItemsOf(storedPosts'.raw)[i].id = posts'[i].id
                      /\ ItemsOf(storedPosts'.raw)[i] = posts'[i]
      ]_vars

\* The first load has seeded the defaults and the store holds them.
C11_Witness ==
    /\ out.op = "mount"
    /\ ~out.quota
    /\ fresh = 3
    /\ AreDefaults(posts)
    /\ storedPosts = Item(ArrayText(posts))

\* C12: a load of a stored array that is not empty returns its records in
\* their order; a record whose id is missing or null gets an id that is a
\* non-empty string and differs from every other id of the result, and is
\* otherwise the stored record; a record that has an id is returned as it
\* is stored.  Every load does so.
C12_NormalizesIds ==
    [][(Loads /\ ~NothingStored) =>
          LET raw == ItemsOf(storedPosts.raw)
          IN  /\ Len(posts') = Len(raw)
              /\ \A i \in 1..Len(raw) :
                    IF raw[i].id.type \in {"undefined", "null"}
                    THEN /\ posts'[i] = [raw[i] EXCEPT !.id = posts'[i].id]
                         /\ posts'[i].id.type = "string"
                         /\ posts'[i].id.s # <<>>
                         /\ \A j \in 1..Len(raw) :
                                posts'[j].id = posts'[i].id => i = j
                    ELSE posts'[i] = raw[i]
      ]_vars

\* A load has returned three posts: the one stored with its id, and two
\* that lacked one, now with ids of their own.
C12_Witness ==
    /\ out.op = "mount"
    /\ Len(posts) = 3
    /\ posts[1].id = Str(<<"k">>)
    /\ posts[2].title = Str(<<"b">>)
    /\ posts[2].id.type = "string"
    /\ posts[3].id.type = "string"
    /\ posts[2].id # posts[3].id

\* C13: when the posts become empty the save that follows takes the "posts"
\* entry out of the store, and a load that comes after the last post was
\* deleted, with no post created in between, returns the default posts.
C13_EmptyResetsToDefaults ==
    [][/\ (blogStatus' = "mounted" /\ posts' # posts /\ Len(posts') = 0)
            => ~storedPosts'.present
       /\ (Loads /\ out.emptied) => AreDefaults(posts')
      ]_vars

\* The last post was deleted, and the load after it has returned defaults.
C13_Witness ==
    /\ out.op = "mount"
    /\ out.emptied
    /\ AreDefaults(posts)

\* C17: while Blog is on screen its posts change only by a create or a
\* delete, taken in a state where isAuthed is true; a step taken while
\* isAuthed is false leaves the posts as they are.
C17_MutationGated ==
    [][(blogStatus = "mounted" /\ blogStatus' = "mounted") =>
          /\ posts' # posts =>
                (isAuthed = JBool(TRUE) /\ out'.op \in {"create", "delete"})
          /\ out'.op \in {"create", "delete"} => isAuthed = JBool(TRUE)
          /\ isAuthed # JBool(TRUE) => posts' = posts
      ]_vars

\* A post has been created, and after a logout the search was used.
C17_Witness ==
    /\ out.op = "search"
    /\ isAuthed = JBool(FALSE)
    /\ \E i \in 1..Len(posts) : posts[i].title = Str(<<"b">>)
                                    /\ posts[i].body = Str(<<>>)

\* The ids of a collection, in its order.
Ids(ps) == [i \in 1..Len(ps) |-> ps[i].id]

\* C23: the posts in memory never hold two records with one id.  A step
\* that keeps Blog on screen leaves every record it keeps as it was, id
\* included, and gives a new record an id no record had.  A load returns
\* every stored record that has an id under that id.  After a step whose
\* save the storage accepted, the store holds the records in memory under
\* the ids they have in memory, so that a reload returns them under the same
\* ids.
C23_IdsUniqueAndStable ==
    [][/\ blogStatus' = "mounted" =>
            \A i \in 1..Len(posts'), j \in 1..Len(posts') :
                posts'[i].id = posts'[j].id => i = j
       /\ (blogStatus = "mounted" /\ blogStatus' = "mounted") =>
            /\ \A q \in Range(posts') :
                    q.id \in Range(Ids(posts)) => q \in Range(posts)
            /\ \A p \in Range(posts) :
                    p.id \in Range(Ids(posts')) => p \in Range(posts')
       /\ (Loads /\ ~NothingStored) =>
            LET raw == ItemsOf(storedPosts.raw)
            IN  /\ Len(posts') = Len(raw)
                /\ \A i \in 1..Len(raw) :
                        ~Nullish(raw[i].id) => posts'[i].id = raw[i].id
       /\ (/\ out'.op \in {"mount", "create", "delete"}
           /\ ~out'.quota
           /\ Len(posts') > 0) =>
                /\ Kind(storedPosts'.raw) = "array"
                /\ Ids(ItemsOf(storedPosts'.raw)) = Ids(posts')
      ]_vars

\* A reload has returned a post that was created on this page and a stored
\* post that had no id until a load gave it one, each under an id that was
\* handed out before this load.
C23_Witness ==
    /\ out.op = "mount"
    /\ ~NothingStored
    /\ Ids(ItemsOf(storedPosts.raw)) = Ids(posts)
    /\ \E p \in Range(posts), q \in Range(posts) :
            /\ p.tags.isArray
            /\ p.createdAt = Num(3 * Day)
            /\ ~q.tags.isArray
            /\ p.id = Str(Uuid(2))
            /\ q.id = Str(Uuid(1))
    /\ fresh = 2

\* C24: while Blog is on screen, after each step and its effects: with no
\* post in memory the store has no "posts" entry; after a step whose save
\* the storage accepted the entry holds exactly the posts in memory; and a
\* step that only renders again (search, session) leaves in the entry no
\* record that is not in memory.
C24_StoreIsPosts ==
    [][blogStatus' = "mounted" =>
          /\ Len(posts') = 0 => ~storedPosts'.present
          /\ (/\ out'.op \in {"mount", "create", "delete"}
              /\ ~out'.quota
              /\ Len(posts') > 0)
                => storedPosts' = Item(StringifyPosts(posts'))
          /\ (out'.op \in {"search", "session"} /\ storedPosts'.present
                /\ storedPosts' # storedPosts)
                => /\ Kind(storedPosts'.raw) = "array"
                   /\ Range(ItemsOf(storedPosts'.raw)) \subseteq Range(posts')
      ]_vars

----------------------------------------------------------------------------
(* The Blog of a first visit with the session open: tags are toggled while *)
(* posts are created and deleted.                                          *)

TagsInit ==
    /\ PostsInit
    /\ isAuthed = JBool(TRUE)
    /\ ~storedPosts.present

TagsNext ==
    \/ \E now \in Nows : BlogMount(now, FALSE)
    \/ \E tag \in Range(AllTags(posts)), now \in Nows :
            OnToggleTag(tag, now, FALSE)
    \/ \E i \in 1..Len(filtered), now \in Nows :
            DeletePost(filtered[i].id, now, FALSE)
    \/ \E title \in FormTitles, tags \in FormTags, now \in Nows :
            Submit(title, <<>>, tags, now, FALSE)

SpecTags == TagsInit /\ [][TagsNext]_vars

\* C29: while Blog is on screen every selected tag is one of the tags of
\* the posts, so that TagFilter shows a chip for it.
C29_SelectedInUniverse ==
    blogStatus = "mounted" =>
        Range(selectedTags) \subseteq Range(AllTags(posts))

----------------------------------------------------------------------------
(* Properties of the derived list, checked under SpecDerive: in every      *)
(* state filtered is what the last render computed from posts, search,     *)
(* selectedTags and sort.                                                   *)

\* The text of a field, empty when the field holds no text.
FieldText(v) == IF v.type = "string" THEN v.s ELSE <<>>

\* The first of content, body, excerpt that is a text with characters.
FirstNonEmpty(p) ==
    LET cands == <<p.content, p.body, p.excerpt>>
        full == {k \in 1..3 : Len(FieldText(cands[k])) > 0}
    IN  IF full = {} THEN <<>>
        ELSE FieldText(cands[CHOOSE k \in full : \A m \in full : k <= m])

\* The search text, trimmed and in lower case, is part of the title, of the
\* primary content or of a tag, each in lower case.
SearchKeeps(p) ==
    LET text == ToLower(Trim(search))
    IN  \/ Includes(ToLower(FieldText(p.title)), text)
        \/ Includes(ToLower(FirstNonEmpty(p)), text)
        \/ \E t \in Range(TagItems(p)) : Includes(ToLower(t), text)

\* C14: with a search text that is empty after trimming the search takes no
\* post away; otherwise a post (passing the tag filter) is in the derived
\* list exactly when the trimmed lower-cased search text is part of its
\* lower-cased title, of its lower-cased primary content (the first
\* non-empty of content, body, excerpt, and only that one), or of one of
\* its lower-cased tags.
C14_SearchFilter ==
    blogStatus = "mounted" =>
        \A p \in Range(posts) :
            HasEveryTag(p, selectedTags) =>
                (p \in Range(filtered)
                    <=> (Trim(search) = <<>> \/ SearchKeeps(p)))

\* A search for "c" has kept one post of two and dropped the post that has
\* "c" only in its excerpt, behind a body.
C14_Witness ==
    /\ search = <<"c">>
    /\ selectedTags = <<>>
    /\ Len(posts) = 2
    /\ Len(filtered) = 1
    /\ \E p \in Range(posts) :
            /\ p \notin Range(filtered)
            /\ p.excerpt = Str(<<"c">>)
            /\ p.body = Str(<<"b", "a">>)

\* C15: the derived list holds exactly the posts that passed the search and
\* whose tags include every selected tag; with no tag selected the tag
\* filter takes nothing away.
C15_TagFilter ==
    blogStatus = "mounted" =>
        LET needle == ToLower(Trim(search))
            passed == {p \in Range(posts) :
                            needle = <<>> \/ MatchesSearch(p, needle)}
        IN  /\ Range(filtered)
                    = {p \in passed :
                            Range(selectedTags) \subseteq Range(TagItems(p))}
            /\ selectedTags = <<>> => Range(filtered) = passed

\* Two tags are selected; a post with both is listed, a post with only one
\* of them is not.
C15_Witness ==
    /\ Len(selectedTags) = 2
    /\ Len(posts) = 2
    /\ Len(filtered) = 1
    /\ \E p \in Range(posts) :
            /\ p \notin Range(filtered)
            /\ Range(selectedTags) \cap Range(TagItems(p)) # {}

\* None of date, publishedAt, createdAt gives a time.
NoTime(p) ==
    /\ p.createdAt.type # "number"
    /\ \A v \in {p.date, p.publishedAt, p.createdAt} :
            DateParse(v).type = "NaN"

\* C16: the derived list is in the order of the resolved times: never
\* rising when sort is "newest", never falling otherwise; a post none of
\* whose time fields can be read counts as time 0, so that in rising order
\* it comes before every post with a time above 0.
C16_SortedByTime ==
    blogStatus = "mounted" =>
        \A i \in 1..Len(filtered), j \in 1..Len(filtered) :
            /\ i < j =>
                IF sort = "newest"
                THEN GetTime(filtered[i]) >= GetTime(filtered[j])
                ELSE GetTime(filtered[i]) <= GetTime(filtered[j])
            /\ NoTime(filtered[i]) => GetTime(filtered[i]) = 0
            /\ (sort # "newest" /\ NoTime(filtered[i])
                    /\ GetTime(filtered[j]) > 0) => i < j

\* Oldest first has moved a post without any time in front of a post with
\* one that was stored before it.
C16_Witness ==
    /\ sort = "oldest"
    /\ Len(filtered) = 2
    /\ NoTime(filtered[1])
    /\ GetTime(filtered[2]) > 0
    /\ posts[1] = filtered[2]

\* The time the claim describes: a numeric createdAt as it is; otherwise
\* the first of date, publishedAt, createdAt that parses as a date; 0 when
\* none does.
FirstParseable(p) ==
    IF p.createdAt.type = "number" THEN p.createdAt.n
    ELSE IF DateParse(p.date).type = "number" THEN DateParse(p.date).n
    ELSE IF DateParse(p.publishedAt).type = "number"
         THEN DateParse(p.publishedAt).n
    ELSE IF DateParse(p.createdAt).type = "number"
         THEN DateParse(p.createdAt).n
    ELSE 0

\* C20: the time the sort uses for a post is its numeric createdAt, or else
\* the time of the first of date, publishedAt, createdAt that parses as a
\* date, an earlier field that does not parse not standing in the way of a
\* later one that does; 0 only when none parses.
C20_FirstParseableField ==
    blogStatus = "mounted" =>
        \A p \in Range(posts) : GetTime(p) = FirstParseable(p)

\* The places of the tags, scanning the posts in their order and, in a post
\* that has an array of tags, the tags in theirs.
TagPlaces ==
    UNION {{<<i, j>> : j \in 1..Len(posts[i].tags.items)} :
            i \in {k \in 1..Len(posts) : posts[k].tags.isArray}}
TagAt(a) == posts[a[1]].tags.items[a[2]]
Before(a, b) == a[1] < b[1] \/ (a[1] = b[1] /\ a[2] < b[2])
FirstPlace(t) ==
    CHOOSE a \in TagPlaces :
        /\ TagAt(a) = t
        /\ \A b \in TagPlaces : TagAt(b) = t => (a = b \/ Before(a, b))

\* C21: the tag universe holds exactly the tags found in the posts that have
\* an array of tags, each once, in the order in which they are met first
\* when the posts are scanned in collection order; a post whose tags are no
\* array adds nothing.
C21_TagUniverse ==
    blogStatus = "mounted" =>
        LET u == AllTags(posts)
        IN  /\ Range(u) = {TagAt(a) : a \in TagPlaces}
            /\ \A i \in 1..Len(u), j \in 1..Len(u) :
                /\ u[i] = u[j] => i = j
                /\ i < j => Before(FirstPlace(u[i]), FirstPlace(u[j]))

\* Three posts: one whose tags are a text and no array, and two that share
\* a tag, the later of which has another tag in front of the shared one.
C21_Witness ==
    /\ Len(posts) = 3
    /\ \E p \in Range(posts) : ~p.tags.isArray /\ p.tags.items # <<>>
    /\ \E a \in TagPlaces, b \in TagPlaces :
            /\ a[1] < b[1]
            /\ b[2] = 2
            /\ TagAt(a) = TagAt(b)
    /\ Len(AllTags(posts)) = 2

\* The search text, trimmed and in lower case, is part of the title or of
\* the primary content of p.
TextKeeps(p) ==
    LET text == ToLower(Trim(search))
    IN  \/ Includes(ToLower(FieldText(p.title)), text)
        \/ Includes(ToLower(FirstNonEmpty(p)), text)

\* C22: the derived list is a list of posts whatever the shapes of the
\* posts are.  A post whose tags are missing or no array counts as a post
\* without tags: it is in no list made with a tag selected, and with a
\* search text it is listed only for its title or its primary content.  With
\* a search text, a post that matches in none of title, primary content and
\* tags is not listed.
C22_ToleratesShapes ==
    blogStatus = "mounted" =>
        /\ filtered \in Seq(Range(posts))
        /\ \A p \in Range(posts) :
            /\ (~p.tags.isArray /\ selectedTags # <<>>)
                    => p \notin Range(filtered)
            /\ (~p.tags.isArray /\ Trim(search) # <<>>
                    /\ p \in Range(filtered)) => TextKeeps(p)
            /\ (/\ Trim(search) # <<>>
                /\ ~TextKeeps(p)
                /\ ~(/\ p.tags.isArray
                     /\ \E t \in Range(p.tags.items) :
                            Includes(ToLower(t), ToLower(Trim(search)))))
                    => p \notin Range(filtered)

\* A search for "c" lists a post and leaves out the post whose tags are the
\* text "c" and no array.
C22_Witness ==
    /\ search = <<"c">>
    /\ selectedTags = <<>>
    /\ Len(filtered) > 0
    /\ \E p \in Range(posts) :
            /\ ~p.tags.isArray
            /\ p.tags.items = <<<<"c">>>>
            /\ p \notin Range(filtered)

\* C26: a step that computes the derived list anew, for a search text, a
\* selection of tags or a sort order, leaves the posts as they are, records
\* and order; the list holds records of the posts only, none twice.
C26_DerivePure ==
    [][out'.op \in {"search", "toggle", "sort"} =>
          /\ posts' = posts
          /\ Range(filtered') \subseteq Range(posts')
          /\ \A i \in 1..Len(filtered'), j \in 1..Len(filtered') :
                filtered'[i] = filtered'[j] => i = j
      ]_vars

\* With a search text and oldest first the list holds two of three posts,
\* in the order opposite to the one they have in the collection.
C26_Witness ==
    /\ out.op = "sort"
    /\ sort = "oldest"
    /\ Trim(search) # <<>>
    /\ Len(posts) = 3
    /\ Len(filtered) = 2
    /\ \E i \in 1..3, j \in 1..3 :
            /\ i < j
            /\ filtered[1] = posts[j]
            /\ filtered[2] = posts[i]

----------------------------------------------------------------------------
(* App: the active tab, restored from and written to "activeTab".  The     *)
(* store keeps the label as it is, not as JSON.                            *)

TabKey == "activeTab"

\* The effect on [active]: localStorage.setItem("activeTab", active), with
\* no try around it.
PersistTab(st, tab, quota) == IF quota THEN st ELSE SetItem(st, TabKey, tab)

\* The first render that forgets what was saved.
AppMountWithoutRestore(quota) ==
    /\ appStatus = "unmounted"
    /\ active' = TabEducation
    /\ restored' = GetItem(store, TabKey)
    /\ queued' = NoQueued
    /\ store' = PersistTab(store, TabEducation, quota)
    /\ appStatus' = IF quota THEN "raised" ELSE "mounted"
    /\ UNCHANGED <<status, bkey, value, pending, last, res, created>>
    /\ UNCHANGED <<authModal, blogVars, encVars, profile>>

\* App renders for the first time with active = "Education", then its two
\* effects run in their order: the first reads the saved label and, if there
\* is one, calls setActive with it; the second writes active, which is still
\* "Education", to the store.
AppMount(quota) ==
    /\ appStatus = "unmounted"
    /\ active' = TabEducation
    /\ LET saved == GetItem(store, TabKey)
       IN  /\ restored' = saved
           /\ queued' = IF ~quota /\ RawTruthy(saved)
                            /\ saved.raw # TabEducation
                        THEN [set |-> TRUE, tab |-> saved.raw]
                        ELSE NoQueued
    /\ store' = PersistTab(store, TabEducation, quota)
    /\ appStatus' = IF quota THEN "raised"
                    ELSE IF queued'.set THEN "restoring"
                    ELSE "mounted"
    /\ UNCHANGED <<status, bkey, value, pending, last, res, created>>
    /\ UNCHANGED <<authModal, blogVars, encVars, profile>>

\* The render that setActive(saved) asked for, and the effect on [active].
AppRerender(quota) ==
    /\ appStatus = "restoring"
    /\ active' = queued.tab
    /\ queued' = NoQueued
    /\ store' = PersistTab(store, queued.tab, quota)
    /\ appStatus' = IF quota THEN "raised" ELSE "mounted"
    /\ UNCHANGED <<status, bkey, value, pending, last, res, created>>
    /\ UNCHANGED <<restored, authModal, blogVars, encVars, profile>>

\* A tab of Nav is clicked: onChange={setActive}, render, effect.
NavClick(tab, quota) ==
    /\ appStatus = "mounted"
    /\ tab # active
    /\ active' = tab
    /\ store' = PersistTab(store, tab, quota)
    /\ appStatus' = IF quota THEN "raised" ELSE "mounted"
    /\ restored' = Absent
    /\ UNCHANGED <<status, bkey, value, pending, last, res, created>>
    /\ UNCHANGED <<queued, authModal, blogVars, encVars, profile>>

\* The page is reloaded.
AppReload ==
    /\ appStatus # "unmounted"
    /\ appStatus' = "unmounted"
    /\ active' = TabEducation
    /\ queued' = NoQueued
    /\ restored' = Absent
    /\ authModal' = [open |-> FALSE, mode |-> "login"]
    /\ UNCHANGED <<store, status, bkey, value, pending, last, res, created>>
    /\ UNCHANGED <<blogVars, encVars, profile>>

\* openAuth, from the Login and Create buttons of Profile.
OpenAuth(mode) ==
    /\ appStatus = "mounted"
    /\ authModal' = [open |-> TRUE, mode |-> mode]
    /\ UNCHANGED <<store, status, bkey, value, pending, last, res, created>>
    /\ UNCHANGED <<appStatus, active, queued, restored, blogVars, encVars, profile>>

\* closeAuth: the dialog closes and keeps its mode.
CloseAuth ==
    /\ appStatus = "mounted"
    /\ authModal.open
    /\ authModal' = [authModal EXCEPT !.open = FALSE]
    /\ UNCHANGED <<store, status, bkey, value, pending, last, res, created>>
    /\ UNCHANGED <<appStatus, active, queued, restored, blogVars, encVars, profile>>

\* What an earlier visit left under "activeTab": nothing, the empty text,
\* the label of a tab, or a label no tab has any more.
TabInitEntries ==
    {Absent, Item(<<>>), Item(<<"N", "e", "w", "s">>)}
        \cup {Item(Tabs[i]) : i \in 1..Len(Tabs)}

AppInit ==
    /\ store \in [{TabKey} -> TabInitEntries]
    /\ status = [b \in Bindings |-> "unmounted"]
    /\ bkey = AuthKeys
    /\ value = [b \in Bindings |-> JUndefined]
    /\ pending = [b \in Bindings |-> "none"]
    /\ last = NoLast
    /\ res = NoRes
    /\ created = NoCreated
    /\ ExtIdle

AppNext ==
    \/ \E quota \in BOOLEAN : AppMount(quota)
    \/ \E quota \in BOOLEAN : AppRerender(quota)
    \/ \E i \in 1..Len(Tabs), quota \in BOOLEAN : NavClick(Tabs[i], quota)
    \/ AppReload
    \/ \E mode \in {"login", "create"} : OpenAuth(mode)
    \/ CloseAuth

SpecApp == AppInit /\ [][AppNext]_vars

\* The mount effect found the label of a tab in the store, and no tab has
\* been clicked since.
RestoredTab == RawTruthy(restored) /\ restored.raw \in Range(Tabs)

\* C18 as stated: if the store holds tab T when App mounts, then once the
\* mount effects have run the active tab is T and the store still holds T,
\* the initial default tab never taking its place.
C18_TabNeverReplaced ==
    (appStatus \in {"restoring", "mounted"} /\ RestoredTab) =>
        /\ active = restored.raw
        /\ GetItem(store, TabKey) = Item(restored.raw)

\* C18: if the store holds tab T when App mounts, then once the mount
\* effects, the render their setActive(T) asks for and the effect of that
\* render have run (the storage accepting the writes), the active tab is T
\* and the store holds T; before that render the store holds the initial
\* default tab, written by the second mount effect.
C18_TabRestored ==
    /\ (appStatus = "mounted" /\ RestoredTab) =>
            /\ active = restored.raw
            /\ GetItem(store, TabKey) = Item(restored.raw)
    /\ (appStatus = "restoring" /\ RestoredTab) =>
            /\ active = TabEducation
            /\ GetItem(store, TabKey) = Item(TabEducation)
            /\ queued = [set |-> TRUE, tab |-> restored.raw]

\* The Blog tab was stored; App has mounted and shows it, and the store
\* holds it.
C18_Witness ==
    /\ appStatus = "mounted"
    /\ restored = Item(TabBlog)
    /\ active = TabBlog
    /\ GetItem(store, TabKey) = Item(TabBlog)

----------------------------------------------------------------------------
(* File encodings.  A file picked in Profile, BlogPostForm or Gallery is   *)
(* encoded out of line (FileReader, Image); the handler that picked it     *)
(* goes on when the encoding resolves or rejects.                           *)

GalleryKey == "gallery:images"

Files == {<<"1">>, <<"2">>}

\* The data URL toBase64 (and downscaleAndEncode) resolve with.
Encoded(file) == <<"d", "a", "t", "a", ":">> \o file

\* { id, url } of Gallery
GalleryEntry(id, url) == [id |-> id, url |-> url]

\* The handler of the file input of component c starts an encoding; what
\* Gallery's handler will add to is the images of the render it was made in.
Pick(c, file) ==
    /\ ProviderMounted
    /\ Truthy(value[AuthedB])
    /\ picked < MaxPicks
    /\ tasks' = tasks \cup {[k |-> picked + 1, c |-> c, file |-> file,
                             snap |-> IF c = "gallery" THEN images
                                      ELSE <<>>]}
    /\ picked' = picked + 1
    /\ enc' = [op |-> "pick", c |-> c]
    /\ UNCHANGED <<store, status, bkey, value, pending, last, res, created>>
    /\ UNCHANGED <<draftPhoto, image, images, notices, blogVars, appVars, profile>>

\* onPhotoChange of Profile; the file input is in the editor of the photo.
OnPhotoChange(file) ==
    /\ profile.editing
    /\ profile.editMode = "photo"
    /\ Pick("profile", file)

\* onImage of BlogPostForm
OnImage(file) == Pick("form", file)

\* onFileChange of Gallery
OnFileChange(file) == Pick("gallery", file)

\* The encoding of t resolves: setDraftPhoto(b64), setImage(b64), or
\* addImage(b64) with the hook's effect writing the images.  The setters
\* act while the components are on screen.
Resolve(t) ==
    /\ ProviderMounted
    /\ t \in tasks
    /\ tasks' = tasks \ {t}
    /\ enc' = [op |-> "resolve", c |-> t.c]
    /\ draftPhoto' = IF t.c = "profile" THEN Str(Encoded(t.file))
                     ELSE draftPhoto
    /\ image' = IF t.c = "form" THEN Encoded(t.file) ELSE image
    /\ IF t.c = "gallery"
       THEN /\ fresh < MaxIds
            /\ images' = <<GalleryEntry(Str(Uuid(fresh + 1)),
                                        Encoded(t.file))>> \o t.snap
            /\ fresh' = fresh + 1
            /\ store' = SetItem(store, GalleryKey, ArrayText(images'))
       ELSE UNCHANGED <<images, fresh, store>>
    /\ UNCHANGED <<status, bkey, value, pending, last, res, created>>
    /\ UNCHANGED <<picked, notices, appVars, profile>>
    /\ UNCHANGED <<blogStatus, posts, search, selectedTags, sort, filtered,
                   out>>

\* A failed encoding that is started again.
RejectRetrying(t) ==
    /\ t \in tasks
    /\ picked < MaxPicks + 1
    /\ tasks' = (tasks \ {t}) \cup {[t EXCEPT !.k = picked + 1]}
    /\ picked' = picked + 1
    /\ notices' = [notices EXCEPT ![t.c] = @ + 1]
    /\ enc' = [op |-> "reject", c |-> t.c]
    /\ UNCHANGED <<store, status, bkey, value, pending, last, res, created>>
    /\ UNCHANGED <<draftPhoto, image, images, blogVars, appVars, profile>>

\* The encoding of t rejects.  In Profile the catch logs it and shows one
\* alert; in BlogPostForm and Gallery the await throws, the rest of the
\* handler is skipped and the promise of the handler rejects.
Reject(t) ==
    /\ t \in tasks
    /\ tasks' = tasks \ {t}
    /\ notices' = [notices EXCEPT ![t.c] = @ + 1]
    /\ enc' = [op |-> "reject", c |-> t.c]
    /\ UNCHANGED <<store, status, bkey, value, pending, last, res, created>>
    /\ UNCHANGED <<picked, draftPhoto, image, images, blogVars, appVars, profile>>

\* "Remove image" of BlogPostForm: setImage("")
RemoveImage ==
    /\ ProviderMounted
    /\ Truthy(value[AuthedB])
    /\ image # <<>>
    /\ image' = <<>>
    /\ enc' = [op |-> "remove", c |-> "form"]
    /\ UNCHANGED <<store, status, bkey, value, pending, last, res, created>>
    /\ UNCHANGED <<tasks, picked, draftPhoto, images, notices, blogVars,
                   appVars, profile>>

\* The images Gallery has loaded from the store.
StoredImages == <<GalleryEntry(Str(<<"g">>), <<"x">>)>>

\* The three components are on screen, the session is open, and Profile
\* has its editor open on the photo.
EncodeInit ==
    /\ status = [b \in Bindings |-> "mounted"]
    /\ bkey = AuthKeys
    /\ value = [b \in Bindings |->
                    IF b = AuthedB THEN JBool(TRUE) ELSE TheAccount]
    /\ store = [k \in BlogKeys \cup {GalleryKey} |->
                    IF k = PostsKey THEN Absent
                    ELSE IF k = GalleryKey THEN Item(ArrayText(StoredImages))
                    ELSE IF k = "isAuthed" THEN Item(TextTrue)
                    ELSE Item(Stringify(TheAccount))]
    /\ pending = [b \in Bindings |-> "none"]
    /\ last = NoLast
    /\ res = NoRes
    /\ created = NoCreated
    /\ BlogIdle
    /\ AppIdle
    /\ tasks = {}
    /\ picked = 0
    /\ draftPhoto = DefaultPhoto
    /\ image = <<>>
    /\ images = StoredImages
    /\ notices = [c \in Encoders |-> 0]
    /\ enc = NoEnc
    /\ profile = [ProfileOf(StoredSummary, StoredPlans, DefaultPhoto)
                    EXCEPT !.editing = TRUE, !.editMode = "photo"]

EncodeNext ==
    \/ \E file \in Files : OnPhotoChange(file)
    \/ \E file \in Files : OnImage(file)
    \/ \E file \in Files : OnFileChange(file)
    \/ \E t \in tasks : Resolve(t)
    \/ \E t \in tasks : Reject(t)
    \/ RemoveImage

SpecEncode == EncodeInit /\ [][EncodeNext]_vars

----------------------------------------------------------------------------
(* Gallery on screen: images are added from a URL or from a file, and      *)
(* deleted from the lightbox, while the session is opened and closed.      *)

\* addImage(newImage.trim()) from the Add button: the entry goes in front
\* of the images of this render.
AddImage(url) ==
    /\ ProviderMounted
    /\ Truthy(value[AuthedB])
    /\ fresh < MaxIds
    /\ images' = <<GalleryEntry(Str(Uuid(fresh + 1)), url)>> \o images
    /\ fresh' = fresh + 1
    /\ store' = SetItem(store, GalleryKey, ArrayText(images'))
    /\ enc' = [op |-> "add", c |-> "gallery"]
    /\ UNCHANGED <<status, bkey, value, pending, last, res, created>>
    /\ UNCHANGED <<tasks, picked, draftPhoto, image, notices, appVars, profile>>
    /\ UNCHANGED <<blogStatus, posts, search, selectedTags, sort, filtered,
                   out>>

\* deleteImage(selected.id), confirmed, from the Delete button of the
\* lightbox; the button is on screen only while isAuthed is true.
DeleteImage(id) ==
    /\ ProviderMounted
    /\ Truthy(value[AuthedB])
    /\ \E i \in 1..Len(images) : images[i].id = id
    /\ images' = SelectSeq(images, LAMBDA img : img.id # id)
    /\ store' = SetItem(store, GalleryKey, ArrayText(images'))
    /\ enc' = [op |-> "delete", c |-> "gallery"]
    /\ UNCHANGED <<status, bkey, value, pending, last, res, created>>
    /\ UNCHANGED <<tasks, picked, draftPhoto, image, notices, blogVars,
                   appVars, profile>>

GalleryNext ==
    \/ OnFileChange(<<"1">>)
    \/ \E t \in tasks : Resolve(t)
    \/ AddImage(<<"y">>)
    \/ \E i \in 1..Len(images) : DeleteImage(images[i].id)
    \/ Logout
    \/ Login(TheAccount.username, TheAccount.password)

SpecGallery == EncodeInit /\ [][GalleryNext]_vars

\* C27: when the encoding of a file picked in Gallery completes, the images
\* are the new entry followed by the images as they were just before it
\* completed.
C27_NoLostUpdate ==
    [][(tasks' # tasks /\ enc'.op = "resolve" /\ enc'.c = "gallery") =>
          /\ Len(images') = Len(images) + 1
          /\ Tail(images') = images
      ]_vars

\* C28: the images of Gallery change, in memory or in the store, only in a
\* step taken while isAuthed is true.
C28_GalleryGated ==
    [][(images' # images \/ store'[GalleryKey] # store[GalleryKey])
            => isAuthed = JBool(TRUE)
      ]_vars

\* C19: when the encoding of a picked file fails, the failure surfaces once
\* (one notice more for the component, none for the others), the photo
\* draft of Profile, the image draft of BlogPostForm and the images of
\* Gallery, in memory and in the store, are as before, and the encoding is
\* not started again: the failed one is gone and no other is added.
C19_FailureSurfacesOnce ==
    [][enc'.op = "reject" =>
          /\ notices'[enc'.c] = notices[enc'.c] + 1
          /\ \A c \in Encoders \ {enc'.c} : notices'[c] = notices[c]
          /\ draftPhoto' = draftPhoto
          /\ image' = image
          /\ images' = images
          /\ store' = store
          /\ tasks' \subseteq tasks
          /\ Cardinality(tasks') = Cardinality(tasks) - 1
          /\ \E t \in tasks \ tasks' : t.c = enc'.c
      ]_vars

\* In BlogPostForm one encoding gave the image draft, a later one failed
\* and surfaced once; the draft is the earlier image.
C19_Witness ==
    /\ enc = [op |-> "reject", c |-> "form"]
    /\ notices["form"] = 1
    /\ image \in {Encoded(f) : f \in Files}
    /\ \A t \in tasks : t.c # "form"

----------------------------------------------------------------------------
(* The editor of Profile: the drafts of the summary, the plans and the     *)
(* photo, opened, edited, abandoned and saved.                             *)

SummaryKey == "profile:summary"
PlansKey == "profile:plans"
PhotoKey == "profile:photo"

EditModes == {"summary", "plans", "photo"}

\* What is typed into the textareas of the editor.
DraftTexts == {<<"x">>, <<"s", " ">>}

\* JSON.stringify of a photo: a string, or { url }
PhotoText(ph) ==
    IF ph.type = "string" THEN Quoted(ph.s)
    ELSE <<"{">> \o Quoted(<<"u", "r", "l">>) \o <<":">> \o Quoted(ph.s)
             \o <<"}">>

\* openEditor(mode), from the edit buttons shown while isAuthed
OpenEditor(mode) ==
    /\ ProviderMounted
    /\ Truthy(value[AuthedB])
    /\ ~profile.editing
    /\ profile' = [profile EXCEPT !.editMode = mode, !.editing = TRUE]
    /\ UNCHANGED <<store, status, bkey, value, pending, last, res, created>>
    /\ UNCHANGED <<blogVars, appVars, encVars>>

\* closeEditor, from Cancel, the close button, the backdrop and Escape
CloseEditor ==
    /\ profile.editing
    /\ profile' = [profile EXCEPT !.editing = FALSE]
    /\ UNCHANGED <<store, status, bkey, value, pending, last, res, created>>
    /\ UNCHANGED <<blogVars, appVars, encVars>>

\* The textarea of the summary: setDraftSummary(e.target.value)
SetDraftSummary(text) ==
    /\ profile.editing
    /\ profile.editMode = "summary"
    /\ profile' = [profile EXCEPT !.draftSummary = text]
    /\ UNCHANGED <<store, status, bkey, value, pending, last, res, created>>
    /\ UNCHANGED <<blogVars, appVars, encVars>>

\* The textarea of the plans: setDraftPlans(e.target.value)
SetDraftPlans(text) ==
    /\ profile.editing
    /\ profile.editMode = "plans"
    /\ profile' = [profile EXCEPT !.draftPlans = text]
    /\ UNCHANGED <<store, status, bkey, value, pending, last, res, created>>
    /\ UNCHANGED <<blogVars, appVars, encVars>>

\* "Remove photo": setDraftPhoto("/placeholder.jpg")
RemovePhoto ==
    /\ profile.editing
    /\ profile.editMode = "photo"
    /\ draftPhoto' = Str(Placeholder)
    /\ UNCHANGED <<store, status, bkey, value, pending, last, res, created>>
    /\ UNCHANGED <<tasks, picked, image, images, notices, enc>>
    /\ UNCHANGED <<blogVars, appVars, profile>>

\* saveEdits: the draft of the mode is persisted (the texts trimmed) and
\* the editor closes.  When the persisted value changes, the hook's effect
\* writes it to the store and the effect on [summary, plans, photo] sets
\* the three drafts to the persisted values; a value equal to the one held
\* gives no new render and neither effect runs.
SaveEdits ==
    /\ profile.editing
    /\ LET s == IF profile.editMode = "summary"
                THEN Trim(profile.draftSummary) ELSE profile.summary
           p == IF profile.editMode = "plans"
                THEN Trim(profile.draftPlans) ELSE profile.plans
           ph == IF profile.editMode = "photo"
                 THEN draftPhoto ELSE profile.photo
           changed == <<s, p, ph>>
                         # <<profile.summary, profile.plans, profile.photo>>
       IN  /\ profile' = [profile EXCEPT
                             !.editing = FALSE,
                             !.summary = s, !.plans = p, !.photo = ph,
                             !.draftSummary = IF changed THEN s ELSE @,
                             !.draftPlans = IF changed THEN p ELSE @]
           /\ draftPhoto' = IF changed THEN ph ELSE draftPhoto
           /\ store' = [k \in DOMAIN store |->
                           IF k = SummaryKey THEN Item(Stringify(JStr(s)))
                           ELSE IF k = PlansKey THEN Item(Stringify(JStr(p)))
                           ELSE IF k = PhotoKey THEN Item(PhotoText(ph))
                           ELSE store[k]]
    /\ UNCHANGED <<status, bkey, value, pending, last, res, created>>
    /\ UNCHANGED <<tasks, picked, image, images, notices, enc>>
    /\ UNCHANGED <<blogVars, appVars>>

\* Profile is on screen with its editor closed, the session is open, and
\* the store holds what the hooks wrote when Profile mounted.
ProfileInit ==
    /\ status = [b \in Bindings |-> "mounted"]
    /\ bkey = AuthKeys
    /\ value = [b \in Bindings |->
                    IF b = AuthedB THEN JBool(TRUE) ELSE TheAccount]
    /\ store = [k \in Keys \cup {SummaryKey, PlansKey, PhotoKey} |->
                    IF k = SummaryKey
                    THEN Item(Stringify(JStr(StoredSummary)))
                    ELSE IF k = PlansKey
                    THEN Item(Stringify(JStr(StoredPlans)))
                    ELSE IF k = PhotoKey THEN Item(PhotoText(DefaultPhoto))
                    ELSE IF k = "isAuthed" THEN Item(TextTrue)
                    ELSE Item(Stringify(TheAccount))]
    /\ pending = [b \in Bindings |-> "none"]
    /\ last = NoLast
    /\ res = NoRes
    /\ created = NoCreated
    /\ ExtIdle

ProfileNext ==
    \/ \E mode \in EditModes : OpenEditor(mode)
    \/ CloseEditor
    \/ \E text \in DraftTexts : SetDraftSummary(text)
    \/ \E text \in DraftTexts : SetDraftPlans(text)
    \/ RemovePhoto
    \/ SaveEdits
    \/ \E file \in Files : OnPhotoChange(file)
    \/ \E t \in tasks : Resolve(t)
    \/ \E t \in tasks : Reject(t)

SpecProfile == ProfileInit /\ [][ProfileNext]_vars

\* The store holds the persisted values of Profile.
StoreIsProfile ==
    /\ store[SummaryKey] = Item(Stringify(JStr(profile.summary)))
    /\ store[PlansKey] = Item(Stringify(JStr(profile.plans)))
    /\ store[PhotoKey] = Item(PhotoText(profile.photo))

\* C30: every time the editor of Profile is opened, the draft of the
\* summary, of the plans and of the photo is the persisted value, so that
\* what was abandoned with the editor, or encoded after it was closed, is
\* not in a later edit session.
C30_DraftsOnOpen ==
    [][(~profile.editing /\ profile'.editing) =>
          /\ profile'.draftSummary = profile'.summary
          /\ profile'.draftPlans = profile'.plans
          /\ draftPhoto' = profile'.photo
      ]_vars

====
